---- MODULE Spec2Model ----
(***************************************************************************)
(* Derived weather-metrics layer of the Aether weather application: the    *)
(* trend analyser, the comfort scorer, the pattern detector and the impact *)
(* forecaster, as pure functions over a weather snapshot.                  *)
(*                                                                         *)
(* A call is the state machine: `input` holds the argument of the function *)
(* under call, `fn` the function that was last applied ("" before any      *)
(* call) and `ret` what it returned.  Each specification draws its inputs  *)
(* from a bounded set and has one action per function it applies.          *)
(*                                                                         *)
(* Further sections model the event detector, the AI text collaborator,    *)
(* the historical comparison, which reads the system clock, and the        *)
(* subscription: the useSubscription hook, the AdBanner component,         *)
(* AsyncStorage and the store, with one action per step between awaits.    *)
(* The last sections model the colour classifiers, the alert               *)
(* acknowledgment bookkeeping over localStorage and Firestore, and the     *)
(* useWeather hook with its fetches in flight.                             *)
(***************************************************************************)
EXTENDS Integers, Sequences, FiniteSets, TLC

VARIABLES input, fn, ret, clock, requests, storage, iap, hook, banner,
          wallClock, localStorage, firestore, weather

vars ==
  <<input, fn, ret, clock, requests, storage, iap, hook, banner,
    wallClock, localStorage, firestore, weather>>

(***************************************************************************)
(* The world around the calculators: `clock` is the month the system clock *)
(* shows (0 = January), `requests` counts the requests sent to the AI text *)
(* service, `storage` is the device's AsyncStorage, `iap` the app store's  *)
(* side of the in-app purchase, `hook` the state of a mounted              *)
(* useSubscription hook and `banner` the state of a mounted AdBanner.      *)
(* `wallClock` is the day and the hour of the day the system clock shows,  *)
(* `localStorage` the browser's localStorage, `firestore` the document of  *)
(* one user in the 'users' collection together with the calls of           *)
(* acknowledgeAlertFirestore that are under way, and `weather` the state   *)
(* of a mounted useWeather hook together with its fetches.                 *)
(***************************************************************************)
alertWorld == <<wallClock, localStorage, firestore, weather>>

world == <<clock, requests, storage, iap, hook, banner, alertWorld>>

\* AsyncStorage.getItem of a key that was never set
NoItem == "null"

\* a freshly installed app: nothing stored
EmptyStorage == [isPremium |-> NoItem, purchaseReceipt |-> NoItem]

\* the store before any purchase: the ad-free product is not owned, no
\* purchase request waits for the store's answer, no transaction was
\* finished and getAvailablePurchases never handed the product out
NothingBought == [owned |-> FALSE, event |-> "none", finished |-> FALSE, restored |-> FALSE]

\* no screen that calls useSubscription is mounted
HookUnmounted ==
  [mounted |-> FALSE, isPremium |-> FALSE, loading |-> FALSE, connection |-> "none",
   check |-> "idle", purchase |-> "idle", restore |-> "idle"]

\* no AdBanner is mounted
BannerUnmounted == [mounted |-> FALSE, isPremium |-> FALSE, check |-> "idle"]

\* null and undefined
Null == [null |-> TRUE]

\* midnight of day 0
Midnight == [day |-> 0, hour |-> 0]

\* localStorage.getItem('acknowledgedAlerts') of a browser that never stored it
EmptyLocalStorage == [key \in {} |-> NoItem]

\* userDoc.exists() is false
NoDocument == [exists |-> FALSE]

\* no user document and no call of acknowledgeAlertFirestore under way
FirestoreAtRest == [userDoc |-> NoDocument, calls |-> <<>>]

\* useState(null), useState(false), useState(null) and no fetch started
WeatherUnmounted ==
  [weatherData |-> Null, loading |-> FALSE, error |-> Null, fetches |-> <<>>]

AlertWorldAtRest ==
  /\ wallClock = Midnight
  /\ localStorage = EmptyLocalStorage
  /\ firestore = FirestoreAtRest
  /\ weather = WeatherUnmounted

\* the world of a specification that only applies calculators
WorldAtRest ==
  /\ clock = 0
  /\ requests = 0
  /\ storage = EmptyStorage
  /\ iap = NothingBought
  /\ hook = HookUnmounted
  /\ banner = BannerUnmounted
  /\ AlertWorldAtRest

(***************************************************************************)
(* JavaScript numbers.  A number is a record [n, d]: the rational n/d in   *)
(* lowest terms with d > 0, or one of the three non-finite values with     *)
(* d = 0: NaN (0/0), Infinity (1/0), -Infinity (-1/0).  Arithmetic is      *)
(* exact; the sign of zero is not kept.  The running average of            *)
(* findOptimalWindows, where the rounding of doubles decides the result,   *)
(* is computed in doubles (see DoubleNearest).                             *)
(***************************************************************************)
AbsInt(i) == IF i < 0 THEN -i ELSE i

SignInt(i) == IF i < 0 THEN -1 ELSE IF i > 0 THEN 1 ELSE 0

RECURSIVE GCD(_, _)
GCD(a, b) == IF b = 0 THEN a ELSE GCD(b, a % b)

R(n, d) ==
  IF d = 0 THEN [n |-> SignInt(n), d |-> 0]
  ELSE LET g == GCD(AbsInt(n), AbsInt(d))
           s == SignInt(d)
       IN  [n |-> (s * n) \div g, d |-> (s * d) \div g]

N(i) == [n |-> i, d |-> 1]

NaN == [n |-> 0, d |-> 0]

Infinity == [n |-> 1, d |-> 0]

NegInfinity == [n |-> -1, d |-> 0]

Zero == N(0)

IsNaN(a) == a.d = 0 /\ a.n = 0

IsFinite(a) == a.d # 0

Neg(a) == [n |-> -a.n, d |-> a.d]

Add(a, b) ==
  IF a.d = 0 /\ b.d = 0
  THEN (IF a.n = b.n THEN a ELSE NaN)
  ELSE R(a.n * b.d + b.n * a.d, a.d * b.d)

Sub(a, b) == Add(a, Neg(b))

Mul(a, b) == R(a.n * b.n, a.d * b.d)

Div(a, b) == Mul(a, R(b.d, b.n))

\* a < b; false when either side is NaN
Lt(a, b) ==
  /\ ~IsNaN(a)
  /\ ~IsNaN(b)
  /\ IF a.d = 0 /\ b.d = 0 THEN a.n < b.n ELSE a.n * b.d < b.n * a.d

Gt(a, b) == Lt(b, a)

Le(a, b) == ~IsNaN(a) /\ ~IsNaN(b) /\ ~Lt(b, a)

Ge(a, b) == Le(b, a)

\* Math.abs
MathAbs(a) == [n |-> AbsInt(a.n), d |-> a.d]

\* Math.min / Math.max of two numbers: NaN if either is NaN
MathMin(a, b) == IF IsNaN(a) \/ IsNaN(b) THEN NaN ELSE IF Lt(b, a) THEN b ELSE a

MathMax(a, b) == IF IsNaN(a) \/ IsNaN(b) THEN NaN ELSE IF Lt(a, b) THEN b ELSE a

\* Math.round: the nearest integer, a tie going up
MathRound(a) == IF a.d = 0 THEN a ELSE N((2 * a.n + a.d) \div (2 * a.d))

\* Number.prototype.toFixed(digits), as the number the decimal string shows:
\* the nearest multiple of 10^-digits, a tie going away from zero
RECURSIVE Pow10(_)
Pow10(k) == IF k = 0 THEN 1 ELSE 10 * Pow10(k - 1)

ToFixed(a, digits) ==
  IF a.d = 0 THEN a
  ELSE LET p == Pow10(digits)
           m == (2 * AbsInt(a.n) * p + a.d) \div (2 * a.d)
       IN  R(SignInt(a.n) * m, p)

\* the value of `ret` before any call has returned
NoReturn == [none |-> TRUE]

(***************************************************************************)
(* Arrays are sequences of integers (the values the weather API sends),    *)
(* indexed from 0 as in the source.  Reading past the end gives undefined, *)
(* which every arithmetic use turns into NaN.                              *)
(***************************************************************************)
At(arr, i) == IF i >= 0 /\ i < Len(arr) THEN N(arr[i + 1]) ELSE NaN

\* arr.slice(from, to)
Slice(arr, from, to) ==
  LET hi == IF to < Len(arr) THEN to ELSE Len(arr)
  IN  IF from >= hi THEN <<>> ELSE [k \in 1..(hi - from) |-> arr[from + k]]

\* arr.reduce((a, b) => a + b, 0), as an integer
RECURSIVE SumInt(_)
SumInt(arr) == IF Len(arr) = 0 THEN 0 ELSE arr[1] + SumInt(Tail(arr))

(***************************************************************************)
(* Snapshot objects.  An object is a record; a property the object lacks   *)
(* is a field outside its DOMAIN.  A null or undefined snapshot is Null.   *)
(***************************************************************************)
Has(obj, f) == f \in DOMAIN obj

\* obj.f read as a number: undefined (the property is absent) acts as NaN
NumField(obj, f) == IF Has(obj, f) THEN N(obj[f]) ELSE NaN

\* x || 0 on a number: NaN and 0 are falsy
OrZero(x) == IF IsNaN(x) \/ x = Zero THEN Zero ELSE x

\* a function that threw a TypeError (a property read on undefined)
Throw == [exception |-> "TypeError"]

\* the object literal {}
EmptyObject == [k \in {} |-> 0]

(***************************************************************************)
(* Trend analyser: first-half / second-half comparison of the week         *)
(***************************************************************************)
WeeklyComparisonSplitAt3(daily) ==
  LET firstHalf == Slice(daily.temperature_2m_max, 0, 3)
      secondHalf == Slice(daily.temperature_2m_max, 3, 7)
      firstHalfAvg == Div(N(SumInt(firstHalf)), N(Len(firstHalf)))
      secondHalfAvg == Div(N(SumInt(secondHalf)), N(Len(secondHalf)))
      tempChange == Sub(secondHalfAvg, firstHalfAvg)
      tempDirection == IF Gt(tempChange, Zero) THEN "warmer" ELSE "cooler"
      tempPercentage == MathAbs(Mul(Div(tempChange, firstHalfAvg), N(100)))
      firstHalfPrecip == N(SumInt(Slice(daily.precipitation_sum, 0, 3)))
      secondHalfPrecip == N(SumInt(Slice(daily.precipitation_sum, 3, 7)))
      precipChange == Sub(secondHalfPrecip, firstHalfPrecip)
      precipDirection == IF Gt(precipChange, Zero) THEN "wetter" ELSE "drier"
      precipPercentage ==
        IF Gt(firstHalfPrecip, Zero)
        THEN MathAbs(Mul(Div(precipChange, firstHalfPrecip), N(100)))
        ELSE Zero
      firstHalfWind == Div(N(SumInt(Slice(daily.wind_speed_10m_max, 0, 3))), N(3))
      secondHalfWind == Div(N(SumInt(Slice(daily.wind_speed_10m_max, 3, 7))), N(3))
      windChange == Sub(secondHalfWind, firstHalfWind)
      windDirection == IF Gt(windChange, Zero) THEN "windier" ELSE "calmer"
  IN  [temperature |->
         [change |-> tempChange, direction |-> tempDirection,
          percentage |-> tempPercentage,
          summary |-> <<ToFixed(MathAbs(tempChange), 1), "C", tempDirection>>],
       precipitation |->
         [change |-> precipChange, direction |-> precipDirection,
          percentage |-> precipPercentage,
          summary |-> <<ToFixed(MathAbs(precipChange), 1), "mm", precipDirection>>],
       wind |->
         [change |-> windChange, direction |-> windDirection,
          summary |-> <<ToFixed(MathAbs(windChange), 1), "km/h", windDirection>>]]

\* A summary template `${x.toFixed(1)}<unit> ${direction}` is the tuple of its
\* three parts.
calculateWeeklyComparison(daily) ==
  LET firstHalf == Slice(daily.temperature_2m_max, 0, 3)
      secondHalf == Slice(daily.temperature_2m_max, 4, 7)
      firstHalfAvg == Div(N(SumInt(firstHalf)), N(Len(firstHalf)))
      secondHalfAvg == Div(N(SumInt(secondHalf)), N(Len(secondHalf)))
      tempChange == Sub(secondHalfAvg, firstHalfAvg)
      tempDirection == IF Gt(tempChange, Zero) THEN "warmer" ELSE "cooler"
      tempPercentage == MathAbs(Mul(Div(tempChange, firstHalfAvg), N(100)))
      firstHalfPrecip == N(SumInt(Slice(daily.precipitation_sum, 0, 3)))
      secondHalfPrecip == N(SumInt(Slice(daily.precipitation_sum, 4, 7)))
      precipChange == Sub(secondHalfPrecip, firstHalfPrecip)
      precipDirection == IF Gt(precipChange, Zero) THEN "wetter" ELSE "drier"
      precipPercentage ==
        IF Gt(firstHalfPrecip, Zero)
        THEN MathAbs(Mul(Div(precipChange, firstHalfPrecip), N(100)))
        ELSE Zero
      firstHalfWind == Div(N(SumInt(Slice(daily.wind_speed_10m_max, 0, 3))), N(3))
      secondHalfWind == Div(N(SumInt(Slice(daily.wind_speed_10m_max, 4, 7))), N(3))
      windChange == Sub(secondHalfWind, firstHalfWind)
      windDirection == IF Gt(windChange, Zero) THEN "windier" ELSE "calmer"
  IN  [temperature |->
         [change |-> tempChange, direction |-> tempDirection,
          percentage |-> tempPercentage,
          summary |-> <<ToFixed(MathAbs(tempChange), 1), "C", tempDirection>>],
       precipitation |->
         [change |-> precipChange, direction |-> precipDirection,
          percentage |-> precipPercentage,
          summary |-> <<ToFixed(MathAbs(precipChange), 1), "mm", precipDirection>>],
       wind |->
         [change |-> windChange, direction |-> windDirection,
          summary |-> <<ToFixed(MathAbs(windChange), 1), "km/h", windDirection>>]]

(***************************************************************************)
(* Trend analyser: linear regression                                       *)
(***************************************************************************)
RECURSIVE LinearTrendSums(_, _, _)
\* the accumulation loop of calculateLinearTrend, from index i on
LinearTrendSums(data, i, acc) ==
  IF i >= Len(data) THEN acc
  ELSE LinearTrendSums(data, i + 1,
         [sumX |-> acc.sumX + i,
          sumY |-> acc.sumY + data[i + 1],
          sumXY |-> acc.sumXY + i * data[i + 1],
          sumXX |-> acc.sumXX + i * i])

LinearTrendNoCross(data) ==
  LET n == Len(data)
      s == LinearTrendSums(data, 0, [sumX |-> 0, sumY |-> 0, sumXY |-> 0, sumXX |-> 0])
      slope == Div(N(n * s.sumXY), N(n * s.sumXX - s.sumX * s.sumX))
      intercept == Div(Sub(N(s.sumY), Mul(slope, N(s.sumX))), N(n))
  IN  [slope |-> slope, intercept |-> intercept]

calculateLinearTrend(data) ==
  LET n == Len(data)
      s == LinearTrendSums(data, 0, [sumX |-> 0, sumY |-> 0, sumXY |-> 0, sumXX |-> 0])
      slope == Div(N(n * s.sumXY - s.sumX * s.sumY), N(n * s.sumXX - s.sumX * s.sumX))
      intercept == Div(Sub(N(s.sumY), Mul(slope, N(s.sumX))), N(n))
  IN  [slope |-> slope, intercept |-> intercept]

\* Math.max(...arr) and Math.min(...arr): -Infinity and Infinity on no values
\* (the values arr[lo..hi] are folded by halves, which keeps the evaluation
\* shallow on a 48-hour series; Math.max and Math.min are associative)
RECURSIVE MaxOfRange(_, _, _)
MaxOfRange(arr, lo, hi) ==
  IF lo = hi THEN N(arr[lo])
  ELSE MathMax(MaxOfRange(arr, lo, (lo + hi) \div 2),
               MaxOfRange(arr, ((lo + hi) \div 2) + 1, hi))

MaxOf(arr) == IF Len(arr) = 0 THEN NegInfinity ELSE MaxOfRange(arr, 1, Len(arr))

RECURSIVE MinOfRange(_, _, _)
MinOfRange(arr, lo, hi) ==
  IF lo = hi THEN N(arr[lo])
  ELSE MathMin(MinOfRange(arr, lo, (lo + hi) \div 2),
               MinOfRange(arr, ((lo + hi) \div 2) + 1, hi))

MinOf(arr) == IF Len(arr) = 0 THEN Infinity ELSE MinOfRange(arr, 1, Len(arr))

\* the sum of the squared differences from the mean
RECURSIVE SumSquaredDiffs(_, _)
SumSquaredDiffs(data, mean) ==
  IF Len(data) = 0 THEN Zero
  ELSE Add(Mul(Sub(N(data[1]), mean), Sub(N(data[1]), mean)),
           SumSquaredDiffs(Tail(data), mean))

\* Math.sqrt(x) is kept as the record of its argument; it is compared through
\* its square
Sqrt(x) == [sqrtOf |-> x]

SqrtLt(r, k) == Lt(r.sqrtOf, N(k * k))

SqrtGt(r, k) == Gt(r.sqrtOf, N(k * k))

calculateVariability(data) ==
  LET mean == Div(N(SumInt(data)), N(Len(data)))
      variance == Div(SumSquaredDiffs(data, mean), N(Len(data)))
  IN  Sqrt(variance)

\* the daily arrays each part of analyzeWeatherTrends calls a method on or
\* spreads: absent, the call throws a TypeError
WeeklyComparisonReads == {"temperature_2m_max", "precipitation_sum", "wind_speed_10m_max"}

TrendInsightsReads ==
  {"precipitation_sum", "uv_index_max", "wind_speed_10m_max", "temperature_2m_max",
   "temperature_2m_min"}

TrendsReads == {"temperature_2m_max", "precipitation_probability_max"}

\* A description template is the tuple of the values it interpolates.
generateTrendInsights(daily, hourly, current, weeklyComparison) ==
  LET wc == weeklyComparison
      absChange == MathAbs(wc.temperature.change)
      warmer == wc.temperature.direction = "warmer"
      temperatureInsight ==
        IF Gt(absChange, N(3))
        THEN <<[type |-> "temperature",
                severity |-> IF Gt(absChange, N(5)) THEN "high" ELSE "medium",
                icon |-> IF warmer THEN "TrendingUp" ELSE "TrendingDown",
                title |-> IF warmer THEN "Significant Warming Trend"
                          ELSE "Significant Cooling Trend",
                description |-> <<ToFixed(wc.temperature.change, 1),
                                  wc.temperature.direction,
                                  ToFixed(wc.temperature.percentage, 0)>>,
                value |-> wc.temperature.change, unit |-> "C"]>>
        ELSE <<>>
      totalPrecip == N(SumInt(daily.precipitation_sum))
      precipitationInsight ==
        IF Gt(totalPrecip, N(10))
        THEN <<[type |-> "precipitation",
                severity |-> IF Gt(totalPrecip, N(30)) THEN "high" ELSE "medium",
                icon |-> "CloudRain", title |-> "Wet Week Ahead",
                description |-> <<ToFixed(totalPrecip, 1),
                                  IF wc.precipitation.direction = "wetter"
                                  THEN "Conditions becoming wetter"
                                  ELSE "Conditions improving">>,
                value |-> totalPrecip, unit |-> "mm"]>>
        ELSE IF Lt(totalPrecip, N(1))
        THEN <<[type |-> "precipitation", severity |-> "low", icon |-> "Sun",
                title |-> "Dry Week Expected",
                description |-> <<ToFixed(totalPrecip, 1)>>,
                value |-> totalPrecip, unit |-> "mm"]>>
        ELSE <<>>
      avgUV == Div(N(SumInt(daily.uv_index_max)), N(Len(daily.uv_index_max)))
      uvInsight ==
        IF Gt(avgUV, N(6))
        THEN <<[type |-> "uv",
                severity |-> IF Gt(avgUV, N(8)) THEN "high" ELSE "medium",
                icon |-> "Sun", title |-> "High UV Levels This Week",
                description |-> <<ToFixed(avgUV, 1)>>,
                value |-> avgUV, unit |-> "UV Index"]>>
        ELSE <<>>
      maxWind == MaxOf(daily.wind_speed_10m_max)
      windInsight ==
        IF Gt(maxWind, N(40))
        THEN <<[type |-> "wind",
                severity |-> IF Gt(maxWind, N(60)) THEN "high" ELSE "medium",
                icon |-> "Wind", title |-> "Strong Winds Expected",
                description |-> <<ToFixed(maxWind, 0),
                                  IF wc.wind.direction = "windier"
                                  THEN "Conditions becoming windier"
                                  ELSE "Winds moderating">>,
                value |-> maxWind, unit |-> "km/h"]>>
        ELSE <<>>
      tempRange == Sub(MaxOf(daily.temperature_2m_max), MinOf(daily.temperature_2m_min))
      rangeInsight ==
        IF Gt(tempRange, N(20))
        THEN <<[type |-> "temperature", severity |-> "medium", icon |-> "Thermometer",
                title |-> "Large Temperature Variations",
                description |-> <<ToFixed(tempRange, 1),
                                  ToFixed(MinOf(daily.temperature_2m_min), 1),
                                  ToFixed(MaxOf(daily.temperature_2m_max), 1)>>,
                value |-> tempRange, unit |-> "C range"]>>
        ELSE <<>>
      tempVariability == calculateVariability(daily.temperature_2m_max)
      stabilityInsight ==
        IF SqrtLt(tempVariability, 2)
        THEN <<[type |-> "stability", severity |-> "low", icon |-> "Activity",
                title |-> "Stable Weather Pattern",
                description |-> <<tempVariability>>,
                value |-> tempVariability, unit |-> "C variability"]>>
        ELSE IF SqrtGt(tempVariability, 5)
        THEN <<[type |-> "stability", severity |-> "medium", icon |-> "Zap",
                title |-> "Unstable Weather Pattern",
                description |-> <<tempVariability>>,
                value |-> tempVariability, unit |-> "C variability"]>>
        ELSE <<>>
  IN  temperatureInsight \o precipitationInsight \o uvInsight \o windInsight
        \o rangeInsight \o stabilityInsight

trendRecord(name, trend, strongAbove, description) ==
  [name |-> name,
   slope |-> trend.slope,
   direction |-> IF Gt(trend.slope, Zero) THEN "increasing" ELSE "decreasing",
   strength |-> IF Gt(MathAbs(trend.slope), N(strongAbove)) THEN "strong" ELSE "weak",
   description |-> description]

calculateTrends(daily, hourly) ==
  LET dailyTempTrend == calculateLinearTrend(daily.temperature_2m_max)
      precipTrend == calculateLinearTrend(daily.precipitation_probability_max)
      cloudTrend ==
        calculateLinearTrend(IF Has(daily, "cloud_cover_mean")
                             THEN daily.cloud_cover_mean
                             ELSE daily.precipitation_probability_max)
  IN  <<trendRecord("Temperature Trend", dailyTempTrend, 1,
                    <<ToFixed(MathAbs(dailyTempTrend.slope), 2),
                      IF Gt(dailyTempTrend.slope, Zero) THEN "increase" ELSE "decrease">>),
        trendRecord("Precipitation Probability", precipTrend, 5,
                    <<ToFixed(MathAbs(precipTrend.slope), 1),
                      IF Gt(precipTrend.slope, Zero) THEN "increase" ELSE "decrease">>),
        trendRecord("Cloud Cover", cloudTrend, 5,
                    <<IF Gt(cloudTrend.slope, Zero) THEN "Becoming cloudier"
                      ELSE "Clearing up">>)>>

analyzeWeatherTrends(weatherData) ==
  IF weatherData = Null \/ ~Has(weatherData, "daily") \/ ~Has(weatherData, "hourly")
  THEN [weeklyComparison |-> EmptyObject, insights |-> <<>>, trends |-> <<>>]
  ELSE LET daily == weatherData.daily
           hourly == weatherData.hourly
           current == IF Has(weatherData, "current") THEN weatherData.current ELSE Null
       IN  IF \E f \in WeeklyComparisonReads \cup TrendInsightsReads \cup TrendsReads :
                ~Has(daily, f)
           THEN Throw
           ELSE LET weeklyComparison == calculateWeeklyComparison(daily)
                IN  [weeklyComparison |-> weeklyComparison,
                     insights |-> generateTrendInsights(daily, hourly, current,
                                                        weeklyComparison),
                     trends |-> calculateTrends(daily, hourly)]

(***************************************************************************)
(* Comfort scorer                                                          *)
(***************************************************************************)
\* the amounts the six `score -=` statements of calculateComfortScore subtract
temperatureDeduction(temp) ==
  LET tempDiff == MathAbs(Sub(temp, N(21)))
  IN  IF Gt(tempDiff, N(3)) THEN MathMin(N(30), Mul(tempDiff, N(2))) ELSE Zero

feelsLikeDeduction(temp, feelsLike) ==
  LET feelsLikeDiff == MathAbs(Sub(feelsLike, temp))
  IN  IF Gt(feelsLikeDiff, N(3))
      THEN MathMin(N(15), Mul(feelsLikeDiff, R(3, 2))) ELSE Zero

HumidityDeductionFlipped(humidity) ==
  IF Gt(humidity, N(70))
  THEN MathMin(N(20), Mul(Sub(humidity, N(70)), R(1, 2)))
  ELSE IF Lt(humidity, N(30))
       THEN MathMin(N(20), Mul(Sub(humidity, N(30)), R(1, 2)))
       ELSE Zero

humidityDeduction(humidity) ==
  IF Gt(humidity, N(70))
  THEN MathMin(N(20), Mul(Sub(humidity, N(70)), R(1, 2)))
  ELSE IF Lt(humidity, N(30))
       THEN MathMin(N(20), Mul(Sub(N(30), humidity), R(1, 2)))
       ELSE Zero

windDeduction(windSpeed) ==
  IF Gt(windSpeed, N(15))
  THEN MathMin(N(20), Mul(Sub(windSpeed, N(15)), R(1, 2))) ELSE Zero

uvDeduction(uvIndex) ==
  IF Gt(uvIndex, N(5)) THEN MathMin(N(15), Mul(Sub(uvIndex, N(5)), N(2))) ELSE Zero

precipitationDeduction(precipitation) ==
  IF Gt(precipitation, Zero) THEN MathMin(N(25), Mul(precipitation, N(5))) ELSE Zero

calculateComfortScore(temp, humidity, windSpeed, uvIndex, precipitation, feelsLike) ==
  LET s0 == N(100)
      s1 == Sub(s0, temperatureDeduction(temp))
      s2 == Sub(s1, feelsLikeDeduction(temp, feelsLike))
      s3 == Sub(s2, humidityDeduction(humidity))
      s4 == Sub(s3, windDeduction(windSpeed))
      s5 == Sub(s4, uvDeduction(uvIndex))
      score == Sub(s5, precipitationDeduction(precipitation))
  IN  MathMax(Zero, MathRound(score))

calculateTemperatureScore(temp) ==
  LET diff == MathAbs(Sub(temp, N(21)))
  IN  IF Le(diff, N(3)) THEN 100
      ELSE IF Le(diff, N(6)) THEN 80
      ELSE IF Le(diff, N(10)) THEN 60
      ELSE IF Le(diff, N(15)) THEN 40
      ELSE 20

getTemperatureImpact(temp) ==
  IF Ge(temp, N(18)) /\ Le(temp, N(24)) THEN "Optimal temperature for comfort"
  ELSE IF Gt(temp, N(24)) /\ Le(temp, N(30)) THEN "Warm - may feel slightly uncomfortable"
  ELSE IF Gt(temp, N(30)) THEN "Hot - uncomfortable for most people"
  ELSE IF Lt(temp, N(18)) /\ Ge(temp, N(10)) THEN "Cool - light jacket recommended"
  ELSE IF Lt(temp, N(10)) THEN "Cold - warm clothing needed"
  ELSE "Moderate"

\* the humidity score with the band of 100 open at its ends
HumidityScoreOpenBand(humidity) ==
  IF Gt(humidity, N(40)) /\ Lt(humidity, N(60)) THEN 100
  ELSE IF Ge(humidity, N(30)) /\ Le(humidity, N(70)) THEN 80
  ELSE IF Ge(humidity, N(20)) /\ Le(humidity, N(80)) THEN 60
  ELSE IF Ge(humidity, N(10)) /\ Le(humidity, N(90)) THEN 40
  ELSE 20

calculateHumidityScore(humidity) ==
  IF Ge(humidity, N(40)) /\ Le(humidity, N(60)) THEN 100
  ELSE IF Ge(humidity, N(30)) /\ Le(humidity, N(70)) THEN 80
  ELSE IF Ge(humidity, N(20)) /\ Le(humidity, N(80)) THEN 60
  ELSE IF Ge(humidity, N(10)) /\ Le(humidity, N(90)) THEN 40
  ELSE 20

getHumidityImpact(humidity) ==
  IF Ge(humidity, N(40)) /\ Le(humidity, N(60)) THEN "Ideal humidity levels"
  ELSE IF Gt(humidity, N(70)) THEN "High humidity - feels muggy and oppressive"
  ELSE IF Gt(humidity, N(60))
       THEN "Slightly humid - may feel warmer than actual temperature"
  ELSE IF Lt(humidity, N(30))
       THEN "Very dry - may cause skin and respiratory discomfort"
  ELSE IF Lt(humidity, N(40)) THEN "Dry air - stay hydrated"
  ELSE "Moderate"

calculateWindScore(windSpeed) ==
  IF Le(windSpeed, N(10)) THEN 100
  ELSE IF Le(windSpeed, N(20)) THEN 80
  ELSE IF Le(windSpeed, N(30)) THEN 60
  ELSE IF Le(windSpeed, N(40)) THEN 40
  ELSE 20

getWindImpact(windSpeed) ==
  IF Le(windSpeed, N(10)) THEN "Calm to light breeze - pleasant conditions"
  ELSE IF Le(windSpeed, N(20)) THEN "Moderate breeze - comfortable for most activities"
  ELSE IF Le(windSpeed, N(30)) THEN "Fresh breeze - may affect some outdoor activities"
  ELSE IF Le(windSpeed, N(40))
       THEN "Strong breeze - difficult conditions for some activities"
  ELSE "Very strong winds - outdoor activities challenging"

calculateUVScore(uvIndex) ==
  IF Le(uvIndex, N(2)) THEN 100
  ELSE IF Le(uvIndex, N(5)) THEN 80
  ELSE IF Le(uvIndex, N(7)) THEN 60
  ELSE IF Le(uvIndex, N(10)) THEN 40
  ELSE 20

getUVImpact(uvIndex) ==
  IF Le(uvIndex, N(2)) THEN "Low UV - minimal sun protection needed"
  ELSE IF Le(uvIndex, N(5)) THEN "Moderate UV - sun protection recommended"
  ELSE IF Le(uvIndex, N(7)) THEN "High UV - sun protection essential"
  ELSE IF Le(uvIndex, N(10)) THEN "Very high UV - extra precautions required"
  ELSE "Extreme UV - avoid sun exposure during midday"

calculatePrecipitationScore(precipitation) ==
  IF precipitation = Zero THEN 100
  ELSE IF Le(precipitation, N(1)) THEN 70
  ELSE IF Le(precipitation, N(5)) THEN 40
  ELSE 20

getPrecipitationImpact(precipitation) ==
  IF precipitation = Zero THEN "No precipitation - ideal conditions"
  ELSE IF Le(precipitation, N(1)) THEN "Light precipitation - minor impact"
  ELSE IF Le(precipitation, N(5)) THEN "Moderate precipitation - umbrella recommended"
  ELSE "Heavy precipitation - outdoor activities affected"

calculateFeelsLikeScore(temp, feelsLike) ==
  LET diff == MathAbs(Sub(feelsLike, temp))
  IN  IF Le(diff, N(2)) THEN 100
      ELSE IF Le(diff, N(5)) THEN 80
      ELSE IF Le(diff, N(8)) THEN 60
      ELSE 40

\* the template `Feels ${Math.abs(diff).toFixed(1)} C warmer ...` is the tuple
\* of its number and its wording
getFeelsLikeImpact(temp, feelsLike) ==
  LET diff == Sub(feelsLike, temp)
  IN  IF Le(MathAbs(diff), N(2)) THEN <<"Feels like actual temperature">>
      ELSE IF Gt(diff, Zero)
           THEN <<"Feels", ToFixed(MathAbs(diff), 1), "warmer due to humidity">>
           ELSE <<"Feels", ToFixed(MathAbs(diff), 1), "cooler due to wind chill">>

calculateFactorBreakdown(temp, humidity, windSpeed, uvIndex, precipitation, feelsLike) ==
  [temperature |->
     [score |-> calculateTemperatureScore(temp), impact |-> getTemperatureImpact(temp),
      value |-> temp, ideal |-> "18-24 C"],
   humidity |->
     [score |-> calculateHumidityScore(humidity), impact |-> getHumidityImpact(humidity),
      value |-> humidity, ideal |-> "40-60%"],
   wind |->
     [score |-> calculateWindScore(windSpeed), impact |-> getWindImpact(windSpeed),
      value |-> windSpeed, ideal |-> "<15 km/h"],
   uv |->
     [score |-> calculateUVScore(uvIndex), impact |-> getUVImpact(uvIndex),
      value |-> uvIndex, ideal |-> "<5"],
   precipitation |->
     [score |-> calculatePrecipitationScore(precipitation),
      impact |-> getPrecipitationImpact(precipitation),
      value |-> precipitation, ideal |-> "0 mm"],
   feelsLike |->
     [score |-> calculateFeelsLikeScore(temp, feelsLike),
      impact |-> getFeelsLikeImpact(temp, feelsLike),
      value |-> feelsLike, actual |-> temp]]

getRecommendedActivity(score, hour) ==
  IF Ge(score, N(90))
  THEN (IF hour >= 6 /\ hour <= 9 THEN "Morning run or walk"
        ELSE IF hour >= 10 /\ hour <= 16 THEN "Outdoor sports or picnic"
        ELSE IF hour >= 17 /\ hour <= 20 THEN "Evening outdoor dining"
        ELSE "Outdoor activities")
  ELSE IF Ge(score, N(80))
  THEN (IF hour >= 6 /\ hour <= 9 THEN "Morning exercise"
        ELSE IF hour >= 10 /\ hour <= 16 THEN "Outdoor activities with breaks"
        ELSE IF hour >= 17 /\ hour <= 20 THEN "Evening walk"
        ELSE "Light outdoor activities")
  ELSE IF Ge(score, N(70)) THEN "Short outdoor activities"
  ELSE "Indoor activities recommended"

(***************************************************************************)
(* The running average of a window is a JavaScript double, and its         *)
(* rounding error decides Math.round on a mean that ends in .5, so it is   *)
(* kept bit for bit.  The scores of a window are whole numbers 70..100     *)
(* (calculateComfortScore rounds, and only scores >= 70 enter a window),   *)
(* so every value the update computes is a double in [64, 4096) and a      *)
(* whole multiple of 2^-46.  Such a double is the tuple <<a, b, c>> of its  *)
(* multiple a * 2^40 + b * 2^20 + c, with b, c < 2^20.                     *)
(***************************************************************************)
\* 2^20
DoubleLimb == 1024 * 1024

\* carries the overflow of the two low limbs upwards
DoubleCarry(a, b, c) ==
  LET b1 == b + (c \div DoubleLimb)
  IN  <<a + (b1 \div DoubleLimb), b1 % DoubleLimb, c % DoubleLimb>>

\* showing t = a \div 2^13: the multiples of 2^-46 between two neighbouring
\* doubles of the binade of x, 1 in [64, 128), 2 in [128, 256), ...
RECURSIVE DoubleUlp(_)
DoubleUlp(t) == IF t < 1 THEN 1 ELSE 2 * DoubleUlp(t \div 2)

\* round to nearest, ties to even: the double nearest to x + num/den units,
\* where 0 <= num < den
DoubleNearest(x, num, den) ==
  LET ulp == DoubleUlp(x[1] \div 8192)
      low == x[3] % ulp
      q == x[3] \div ulp
      up == \/ 2 * (low * den + num) > ulp * den
            \/ 2 * (low * den + num) = ulp * den /\ q % 2 = 1
  IN  DoubleCarry(x[1], x[2], (q + (IF up THEN 1 ELSE 0)) * ulp)

\* the double of a whole number
DoubleOfWhole(k) == <<64 * k, 0, 0>>

\* x * k, x + k and x / k for a whole number k, each rounded to a double
DoubleTimes(x, k) == DoubleNearest(DoubleCarry(x[1] * k, x[2] * k, x[3] * k), 0, 1)

DoublePlus(x, k) == DoubleNearest(<<x[1] + 64 * k, x[2], x[3]>>, 0, 1)

DoubleOver(x, k) ==
  LET r1 == x[1] % k
      r2 == (r1 * DoubleLimb + x[2]) % k
      r3 == (r2 * DoubleLimb + x[3]) % k
  IN  DoubleNearest(<<x[1] \div k, (r1 * DoubleLimb + x[2]) \div k,
                      (r2 * DoubleLimb + x[3]) \div k>>, r3, k)

\* Math.round of a double: the nearest whole number, a tie going up
MathRoundDouble(x) == N((x[1] \div 64) + (IF x[1] % 64 >= 32 THEN 1 ELSE 0))

\* the double cut to a multiple of 1/64, which compares with a whole number
\* as the double does
DoubleCut(x) == R(x[1], 64)

\* a whole score as the number of its units
WholeScore(score) == CASE score.d = 1 -> score.n

\* currentWindow = null
NoWindow == [none |-> TRUE]

\* the window record pushed when a window is closed
emittedWindow(currentWindow) ==
  [start |-> currentWindow.start,
   end |-> currentWindow.end,
   score |-> MathRoundDouble(currentWindow.avgScore),
   duration |-> currentWindow.count,
   activity |-> getRecommendedActivity(DoubleCut(currentWindow.avgScore),
                                       currentWindow.startHour)]

CloseWindowAnyLength(currentWindow, windows) ==
  IF currentWindow # NoWindow /\ currentWindow.count >= 1
  THEN Append(windows, emittedWindow(currentWindow))
  ELSE windows

\* `if (currentWindow && currentWindow.count >= 2) windows.push(...)`
closeWindow(currentWindow, windows) ==
  IF currentWindow # NoWindow /\ currentWindow.count >= 2
  THEN Append(windows, emittedWindow(currentWindow))
  ELSE windows

\* `if (!currentWindow) {...} else {...}` of an hour that scores 70 or more
extendWindow(currentWindow, hour) ==
  IF currentWindow = NoWindow
  THEN [start |-> hour.time, startHour |-> hour.hour,
        end |-> hour.time, endHour |-> hour.hour,
        avgScore |-> DoubleOfWhole(WholeScore(hour.score)), count |-> 1]
  ELSE [currentWindow EXCEPT
          !.end = hour.time,
          !.endHour = hour.hour,
          !.avgScore = DoubleOver(DoublePlus(DoubleTimes(currentWindow.avgScore,
                                                         currentWindow.count),
                                             WholeScore(hour.score)),
                                  currentWindow.count + 1),
          !.count = currentWindow.count + 1]

RECURSIVE findOptimalWindowsLoop(_, _, _, _)
\* the scan of findOptimalWindows from index i on, and the close of the last
\* window after it
findOptimalWindowsLoop(hourlyComfort, i, currentWindow, windows) ==
  IF i >= Len(hourlyComfort)
  THEN closeWindow(currentWindow, windows)
  ELSE LET hour == hourlyComfort[i + 1]
       IN  IF Ge(hour.score, N(70))
           THEN findOptimalWindowsLoop(hourlyComfort, i + 1,
                                       extendWindow(currentWindow, hour), windows)
           ELSE findOptimalWindowsLoop(hourlyComfort, i + 1, NoWindow,
                                       closeWindow(currentWindow, windows))

findOptimalWindows(hourlyComfort) ==
  LET windows == findOptimalWindowsLoop(hourlyComfort, 0, NoWindow, <<>>)
  IN  SubSeq(windows, 1, IF Len(windows) < 3 THEN Len(windows) ELSE 3)

\* arr?.[i] || 0 for an array that may be absent
OptionalAtOrZero(obj, f, i) == IF Has(obj, f) THEN OrZero(At(obj[f], i)) ELSE Zero

\* new Date(t).getHours() and toLocaleTimeString of an hourly timestamp: a
\* timestamp is a count of whole hours, so both are decided by the hour of day
getHours(t) == t % 24

\* the arrays the hourly loop of calculateComfortIndex indexes unguarded
ComfortHourlyArrays ==
  {"temperature_2m", "relative_humidity_2m", "wind_speed_10m", "precipitation",
   "apparent_temperature"}

hourlyComfortEntry(hourly, i) ==
  [hour |-> getHours(hourly.time[i + 1]),
   time |-> getHours(hourly.time[i + 1]),
   score |-> calculateComfortScore(
               At(hourly.temperature_2m, i),
               At(hourly.relative_humidity_2m, i),
               At(hourly.wind_speed_10m, i),
               OptionalAtOrZero(hourly, "uv_index", i),
               OrZero(At(hourly.precipitation, i)),
               At(hourly.apparent_temperature, i)),
   temperature |-> At(hourly.temperature_2m, i),
   feelsLike |-> At(hourly.apparent_temperature, i)]

ComfortHoursUncapped(hourly) == Len(hourly.time)

\* Math.min(24, hourly.time.length)
comfortHours(hourly) == IF Len(hourly.time) < 24 THEN Len(hourly.time) ELSE 24

calculateComfortIndex(weatherData) ==
  IF weatherData = Null \/ ~Has(weatherData, "current") \/ ~Has(weatherData, "hourly")
  THEN [currentComfort |-> N(50), hourlyComfort |-> <<>>, optimalWindows |-> <<>>,
        factors |-> EmptyObject]
  ELSE LET current == weatherData.current
           hourly == weatherData.hourly
           uv0 == IF Has(weatherData, "daily")
                  THEN OptionalAtOrZero(weatherData.daily, "uv_index_max", 0)
                  ELSE Zero
       IN  IF \/ ~Has(hourly, "time")
              \/ (Len(hourly.time) > 0 /\ \E f \in ComfortHourlyArrays : ~Has(hourly, f))
           THEN Throw
           ELSE LET currentComfort ==
                      calculateComfortScore(
                        NumField(current, "temperature_2m"),
                        NumField(current, "relative_humidity_2m"),
                        NumField(current, "wind_speed_10m"),
                        uv0,
                        OrZero(NumField(current, "precipitation")),
                        NumField(current, "apparent_temperature"))
                    hourlyComfort ==
                      [k \in 1..comfortHours(hourly) |-> hourlyComfortEntry(hourly, k - 1)]
                    optimalWindows == findOptimalWindows(hourlyComfort)
                    factors ==
                      calculateFactorBreakdown(
                        NumField(current, "temperature_2m"),
                        NumField(current, "relative_humidity_2m"),
                        NumField(current, "wind_speed_10m"),
                        uv0,
                        OrZero(NumField(current, "precipitation")),
                        NumField(current, "apparent_temperature"))
                IN  [currentComfort |-> currentComfort,
                     hourlyComfort |-> hourlyComfort,
                     forecast |-> hourlyComfort,
                     optimalWindows |-> optimalWindows,
                     factors |-> factors]

(***************************************************************************)
(* Pattern detector.  A pattern record keeps type, confidence, title, icon *)
(* and timeframe; its description template is the tuple of the values it   *)
(* interpolates.  A detector that finds nothing returns Null.              *)
(***************************************************************************)
\* arr.filter(p => p > limit).length
RECURSIVE CountAbove(_, _)
CountAbove(arr, limit) ==
  IF Len(arr) = 0 THEN 0
  ELSE (IF arr[1] > limit THEN 1 ELSE 0) + CountAbove(Tail(arr), limit)

\* the mean arr.reduce((a, b) => a + b, 0) / arr.length
Mean(arr) == Div(N(SumInt(arr)), N(Len(arr)))

patternRecord(type, confidence, title, description, icon, timeframe) ==
  [type |-> type, confidence |-> confidence, title |-> title,
   description |-> description, icon |-> icon, timeframe |-> timeframe]

detectPrecipitationPattern(hourly, daily) ==
  LET precipProbs == Slice(hourly.precipitation_probability, 0, 48)
      highPrecipHours == CountAbove(precipProbs, 60)
      avgProb == Mean(precipProbs)
  IN  IF highPrecipHours > 12
      THEN patternRecord("recurring", MathMin(N(95), MathRound(avgProb)),
                         "Extended Wet Period Detected", <<ToFixed(avgProb, 0)>>,
                         "CloudRain", "Next 48 hours")
      ELSE IF highPrecipHours > 6
      THEN patternRecord("recurring", N(75), "Intermittent Rain Pattern",
                         <<N(highPrecipHours)>>, "CloudDrizzle", "Next 24-48 hours")
      ELSE Null

\* the day-over-day rises (dir = 1) or falls (dir = -1) of the series
RECURSIVE CountSteps(_, _, _)
CountSteps(dailyTemps, i, dir) ==
  IF i >= Len(dailyTemps) THEN 0
  ELSE (IF dir * (dailyTemps[i + 1] - dailyTemps[i]) > 0 THEN 1 ELSE 0)
       + CountSteps(dailyTemps, i + 1, dir)

detectTemperatureTrend(hourly, daily) ==
  LET temps == Slice(hourly.temperature_2m, 0, 48)
      dailyTemps == Slice(daily.temperature_2m_max, 0, 7)
      risingCount == CountSteps(dailyTemps, 1, 1)
      fallingCount == CountSteps(dailyTemps, 1, -1)
      first == At(dailyTemps, 0)
      last == At(dailyTemps, Len(dailyTemps) - 1)
      maxSwing == Sub(MaxOf(temps), MinOf(temps))
  IN  IF risingCount >= 4
      THEN patternRecord("prediction", N(85), "Warming Trend Identified",
                         <<ToFixed(Div(Sub(last, first), N(Len(dailyTemps))), 1)>>,
                         "TrendingUp", "Next 7 days")
      ELSE IF fallingCount >= 4
      THEN patternRecord("prediction", N(85), "Cooling Trend Identified",
                         <<ToFixed(Div(Sub(first, last), N(Len(dailyTemps))), 1)>>,
                         "TrendingDown", "Next 7 days")
      ELSE IF Gt(maxSwing, N(15))
      THEN patternRecord("anomaly", N(90), "High Temperature Volatility",
                         <<ToFixed(maxSwing, 1)>>, "Zap", "Next 48 hours")
      ELSE Null

detectPressurePattern(current, hourly) ==
  LET currentPressure == NumField(current, "pressure_msl")
      pressures == Slice(hourly.pressure_msl, 0, 24)
      pressureChange == Sub(At(pressures, Len(pressures) - 1), currentPressure)
      changeRate == Div(pressureChange, N(24))
      rising == Gt(changeRate, Zero)
  IN  IF Gt(currentPressure, N(1020))
      THEN patternRecord("recurring", N(88), "High Pressure System Dominant",
                         <<ToFixed(currentPressure, 0)>>, "Sun", "Current")
      ELSE IF Lt(currentPressure, N(1000))
      THEN patternRecord("recurring", N(88), "Low Pressure System Active",
                         <<ToFixed(currentPressure, 0)>>, "Cloud", "Current")
      ELSE IF Gt(MathAbs(changeRate), R(1, 2))
      THEN patternRecord("prediction", N(82),
                         IF rising THEN "Rapidly Rising Pressure"
                         ELSE "Rapidly Falling Pressure",
                         <<ToFixed(MathAbs(changeRate), 1)>>, "Activity", "Next 24 hours")
      ELSE Null

detectHumidityPattern(hourly, daily) ==
  LET humidity == Slice(hourly.relative_humidity_2m, 0, 24)
      avgHumidity == Mean(humidity)
  IN  IF Gt(avgHumidity, N(85))
      THEN patternRecord("recurring", N(90), "Persistent High Humidity",
                         <<ToFixed(avgHumidity, 0)>>, "Droplets", "Next 24 hours")
      ELSE IF Lt(avgHumidity, N(30))
      THEN patternRecord("recurring", N(85), "Very Dry Air Mass",
                         <<ToFixed(avgHumidity, 0)>>, "Wind", "Next 24 hours")
      ELSE Null

detectWindPattern(hourly) ==
  LET windSpeeds == Slice(hourly.wind_speed_10m, 0, 24)
      avgWind == Mean(windSpeeds)
      gustSpeeds == Slice(hourly.wind_gusts_10m, 0, 24)
      maxGust == MaxOf(gustSpeeds)
  IN  IF Gt(maxGust, N(60))
      THEN patternRecord("anomaly", N(95), "Severe Wind Event Expected",
                         <<ToFixed(maxGust, 0)>>, "Wind", "Next 24 hours")
      ELSE IF Gt(avgWind, N(30))
      THEN patternRecord("recurring", N(85), "Sustained Strong Winds",
                         <<ToFixed(avgWind, 0)>>, "Wind", "Next 24 hours")
      ELSE Null

detectAnomalies(current, daily) ==
  LET maxUV == At(daily.uv_index_max, 0)
      maxTemp == At(daily.temperature_2m_max, 0)
      minTemp == At(daily.temperature_2m_min, 0)
      uvAlert ==
        IF Ge(maxUV, N(8))
        THEN <<patternRecord("anomaly", N(95), "Very High UV Index Alert",
                             <<ToFixed(maxUV, 1)>>, "Sun", "Today")>>
        ELSE <<>>
      temperatureAlert ==
        IF Ge(maxTemp, N(35))
        THEN <<patternRecord("anomaly", N(92), "Heat Wave Conditions",
                             <<ToFixed(maxTemp, 1)>>, "Thermometer", "Today")>>
        ELSE IF Le(minTemp, Zero)
        THEN <<patternRecord("anomaly", N(92), "Freezing Conditions Expected",
                             <<ToFixed(minTemp, 1)>>, "Snowflake", "Today")>>
        ELSE <<>>
  IN  uvAlert \o temperatureAlert

\* the arrays the detectors call slice on or index: absent, the read throws
PatternHourlyReads ==
  {"precipitation_probability", "temperature_2m", "pressure_msl",
   "relative_humidity_2m", "wind_speed_10m", "wind_gusts_10m"}

PatternDailyReads == {"temperature_2m_max", "uv_index_max", "temperature_2m_min"}

\* `if (pattern) patterns.push(pattern)`
pushIfFound(pattern) == IF pattern = Null THEN <<>> ELSE <<pattern>>

analyzeWeatherPatterns(weatherData) ==
  IF weatherData = Null \/ ~Has(weatherData, "hourly") \/ ~Has(weatherData, "daily")
  THEN [patterns |-> <<>>]
  ELSE LET hourly == weatherData.hourly
           daily == weatherData.daily
       IN  IF \/ ~Has(weatherData, "current")
              \/ \E f \in PatternHourlyReads : ~Has(hourly, f)
              \/ \E f \in PatternDailyReads : ~Has(daily, f)
           THEN Throw
           ELSE [patterns |->
                   pushIfFound(detectPrecipitationPattern(hourly, daily))
                   \o pushIfFound(detectTemperatureTrend(hourly, daily))
                   \o pushIfFound(detectPressurePattern(weatherData.current, hourly))
                   \o pushIfFound(detectHumidityPattern(hourly, daily))
                   \o pushIfFound(detectWindPattern(hourly))
                   \o detectAnomalies(weatherData.current, daily)]

(***************************************************************************)
(* Impact forecaster.  An impact record keeps category, severity, icon,    *)
(* title, timeframe and probability; its description is the tuple of the   *)
(* values the template interpolates, and its recommendations are the       *)
(* number of literal entries together with the interpolated values.        *)
(***************************************************************************)
impactRecord(category, severity, icon, title, description, recs, timeframe, probability) ==
  [category |-> category, severity |-> severity, icon |-> icon, title |-> title,
   description |-> description, recommendations |-> recs,
   timeframe |-> timeframe, probability |-> probability]

\* a recommendations list of `count` entries, none of them interpolated
literalList(count) == [count |-> count, values |-> <<>>]

analyzeTransportationImpacts(current, daily, hourly) ==
  LET precipSum == N(SumInt(Slice(daily.precipitation_sum, 0, 2)))
      maxPrecipProb == MaxOf(Slice(hourly.precipitation_probability, 0, 24))
      maxWind == MaxOf(Slice(daily.wind_speed_10m_max, 0, 2))
      maxGusts == MaxOf(Slice(hourly.wind_gusts_10m, 0, 24))
      minTemp == MinOf(Slice(daily.temperature_2m_min, 0, 2))
      traffic ==
        IF Gt(precipSum, N(10)) \/ Gt(maxPrecipProb, N(70))
        THEN <<impactRecord("transportation",
                            IF Gt(precipSum, N(20)) THEN "high" ELSE "medium",
                            "Car", "Traffic Delays Expected", <<ToFixed(precipSum, 1)>>,
                            literalList(4), "Next 24-48 hours", maxPrecipProb)>>
        ELSE <<>>
      wind ==
        IF Gt(maxGusts, N(60))
        THEN <<impactRecord("transportation", "high", "Wind",
                            "High Winds Affecting Travel", <<ToFixed(maxGusts, 0)>>,
                            literalList(4), "Next 24 hours", N(85))>>
        ELSE IF Gt(maxWind, N(40))
        THEN <<impactRecord("transportation", "medium", "Wind",
                            "Moderate Wind Impact on Travel", <<ToFixed(maxWind, 0)>>,
                            literalList(3), "Next 24-48 hours", N(75))>>
        ELSE <<>>
      ice ==
        IF Le(minTemp, Zero)
        THEN <<impactRecord("transportation", "high", "Snowflake",
                            "Ice Hazard on Roads", <<ToFixed(minTemp, 1)>>,
                            literalList(4), "Overnight and early morning", N(90))>>
        ELSE <<>>
  IN  traffic \o wind \o ice

analyzeHealthImpacts(current, daily) ==
  LET maxUV == MaxOf(Slice(daily.uv_index_max, 0, 3))
      maxTemp == MaxOf(Slice(daily.temperature_2m_max, 0, 3))
      minTemp == MinOf(Slice(daily.temperature_2m_min, 0, 3))
      avgHumidity == Div(N(SumInt(Slice(daily.relative_humidity_2m_max, 0, 3))), N(3))
      uv ==
        IF Ge(maxUV, N(8))
        THEN <<impactRecord("health", "high", "Sun", "Extreme UV Radiation Risk",
                            <<ToFixed(maxUV, 1)>>, literalList(4), "Next 3 days", N(95))>>
        ELSE IF Ge(maxUV, N(6))
        THEN <<impactRecord("health", "medium", "Sun", "High UV Exposure",
                            <<ToFixed(maxUV, 1)>>, literalList(3), "Next 3 days", N(85))>>
        ELSE <<>>
      heat ==
        IF Ge(maxTemp, N(35))
        THEN <<impactRecord("health", "high", "Thermometer", "Heat Stress Warning",
                            <<ToFixed(maxTemp, 1)>>, literalList(5), "Next 3 days", N(90))>>
        ELSE IF Ge(maxTemp, N(30))
        THEN <<impactRecord("health", "medium", "Thermometer", "Heat Advisory",
                            <<ToFixed(maxTemp, 1)>>, literalList(3), "Next 3 days", N(80))>>
        ELSE <<>>
      cold ==
        IF Le(minTemp, N(-5))
        THEN <<impactRecord("health", "high", "Snowflake", "Severe Cold Warning",
                            <<ToFixed(minTemp, 1)>>, literalList(4), "Next 3 days", N(90))>>
        ELSE <<>>
      humidity ==
        IF Gt(avgHumidity, N(85))
        THEN <<impactRecord("health", "medium", "Droplets",
                            "High Humidity Health Impact", <<ToFixed(avgHumidity, 0)>>,
                            literalList(4), "Next 3 days", N(75))>>
        ELSE <<>>
  IN  uv \o heat \o cold \o humidity

analyzeOutdoorActivityImpacts(current, daily, hourly) ==
  LET precipSum == N(SumInt(Slice(daily.precipitation_sum, 0, 2)))
      maxWind == MaxOf(Slice(daily.wind_speed_10m_max, 0, 2))
      avgTemp == Div(N(SumInt(Slice(daily.temperature_2m_max, 0, 2))), N(2))
      conditions ==
        IF Lt(precipSum, N(2)) /\ Lt(maxWind, N(20))
           /\ Ge(avgTemp, N(15)) /\ Le(avgTemp, N(25))
        THEN <<impactRecord("outdoor", "low", "Smile", "Excellent Outdoor Conditions",
                            <<>>, literalList(4), "Next 48 hours", N(95))>>
        ELSE IF Gt(precipSum, N(15))
        THEN <<impactRecord("outdoor", "high", "CloudRain",
                            "Outdoor Activities Severely Impacted",
                            <<ToFixed(precipSum, 1)>>, literalList(4),
                            "Next 48 hours", N(85))>>
        ELSE IF Gt(precipSum, N(5))
        THEN <<impactRecord("outdoor", "medium", "CloudDrizzle",
                            "Outdoor Activities Affected", <<ToFixed(precipSum, 1)>>,
                            literalList(3), "Next 48 hours", N(70))>>
        ELSE <<>>
      sports ==
        IF Gt(maxWind, N(30))
        THEN <<impactRecord("outdoor", "medium", "Wind",
                            "Wind Impact on Outdoor Sports", <<ToFixed(maxWind, 0)>>,
                            literalList(4), "Next 48 hours", N(80))>>
        ELSE <<>>
  IN  conditions \o sports

analyzeEnergyImpacts(current, daily) ==
  LET maxTemp == MaxOf(Slice(daily.temperature_2m_max, 0, 3))
      minTemp == MinOf(Slice(daily.temperature_2m_min, 0, 3))
      coolingIncrease == MathMin(N(50), Mul(Sub(maxTemp, N(25)), N(5)))
      heatingIncrease == MathMin(N(50), Mul(Sub(N(10), minTemp), N(5)))
      cooling ==
        IF Ge(maxTemp, N(30))
        THEN <<impactRecord("energy", IF Ge(maxTemp, N(35)) THEN "high" ELSE "medium",
                            "Zap", "High Cooling Energy Demand", <<ToFixed(maxTemp, 1)>>,
                            [count |-> 5, values |-> <<ToFixed(coolingIncrease, 0)>>],
                            "Next 3 days", N(85))>>
        ELSE <<>>
      heating ==
        IF Le(minTemp, N(5))
        THEN <<impactRecord("energy", IF Le(minTemp, Zero) THEN "high" ELSE "medium",
                            "Flame", "High Heating Energy Demand", <<ToFixed(minTemp, 1)>>,
                            [count |-> 5, values |-> <<ToFixed(heatingIncrease, 0)>>],
                            "Next 3 days", N(85))>>
        ELSE <<>>
  IN  cooling \o heating

\* the arrays the analyzers call slice on: absent, the call throws
ImpactDailyReads ==
  {"precipitation_sum", "wind_speed_10m_max", "temperature_2m_min",
   "temperature_2m_max", "uv_index_max", "relative_humidity_2m_max"}

ImpactHourlyReads == {"precipitation_probability", "wind_gusts_10m"}

forecastWeatherImpacts(weatherData) ==
  IF weatherData = Null \/ ~Has(weatherData, "current") \/ ~Has(weatherData, "daily")
  THEN [impacts |-> <<>>]
  ELSE LET current == weatherData.current
           daily == weatherData.daily
       IN  IF \/ ~Has(weatherData, "hourly")
              \/ \E f \in ImpactHourlyReads : ~Has(weatherData.hourly, f)
              \/ \E f \in ImpactDailyReads : ~Has(daily, f)
           THEN Throw
           ELSE [impacts |->
                   analyzeTransportationImpacts(current, daily, weatherData.hourly)
                   \o analyzeHealthImpacts(current, daily)
                   \o analyzeOutdoorActivityImpacts(current, daily, weatherData.hourly)
                   \o analyzeEnergyImpacts(current, daily)]

(***************************************************************************)
(* Specification SpecLinear: calculateLinearTrend on every series of at    *)
(* most MaxSeriesLen values drawn from SeriesVals.                         *)
(***************************************************************************)
MaxSeriesLen == 4

SeriesBound == 2

SeriesVals == (-SeriesBound)..SeriesBound

Series == UNION {[1..k -> SeriesVals] : k \in 0..MaxSeriesLen}

InitLinear == input \in Series /\ fn = "" /\ ret = NoReturn /\ WorldAtRest

CallCalculateLinearTrend ==
  /\ fn' = "calculateLinearTrend"
  /\ ret' = calculateLinearTrend(input)
  /\ UNCHANGED input
  /\ UNCHANGED world

NextLinear == CallCalculateLinearTrend

SpecLinear == InitLinear /\ [][NextLinear]_vars

\* the series is a + d*i for i = 0 .. N-1
IsLinearSeries(data) ==
  \A i \in 1..Len(data) : data[i] = data[1] + (data[2] - data[1]) * (i - 1)

\* C9: on a perfectly linear series a, a+d, a+2d, ... of length N >= 2,
\* calculateLinearTrend returns slope d and intercept a.
C9_LinearTrendExact ==
  (fn = "calculateLinearTrend" /\ Len(input) >= 2 /\ IsLinearSeries(input))
    => /\ ret.slope = N(input[2] - input[1])
       /\ ret.intercept = N(input[1])

\* a linear series with a non-zero step and a non-zero start has been fitted
C9_Witness ==
  /\ fn = "calculateLinearTrend"
  /\ Len(input) >= 3
  /\ IsLinearSeries(input)
  /\ input[2] # input[1]
  /\ input[1] # 0
  /\ ret.slope = N(input[2] - input[1])

\* C10: for a series of length N < 2, where n*sumXX - sumX*sumX is 0,
\* calculateLinearTrend returns slope 0 instead of dividing by zero.
C10_ZeroDenominatorGuarded ==
  (fn = "calculateLinearTrend" /\ Len(input) < 2) => ret.slope = Zero

(***************************************************************************)
(* Specification SpecWeekly: calculateWeeklyComparison on 7-day series.    *)
(* One metric's series ranges over every 7-element series of its values    *)
(* while the other two are taken from a palette of two series each.        *)
(***************************************************************************)
WeekLevels == 2

\* daily maxima, in steps of 3 degrees from -3
WeekTempVals == {3 * (k - 1) : k \in 0..WeekLevels}

\* daily precipitation totals and wind maxima, in steps of 2 from 0
WeekAmountVals == {2 * k : k \in 0..(WeekLevels - 1)}

\* the series the two metrics that are not ranged over are taken from
OtherSeries ==
  {[t |-> <<20, 21, 19, 20, 26, 27, 28>>, p |-> <<0, 0, 0, 0, 0, 0, 0>>,
    w |-> <<10, 12, 8, 30, 20, 25, 15>>],
   [t |-> <<0, 0, 0, 5, 1, 2, 3>>, p |-> <<2, 0, 1, 4, 0, 6, 3>>,
    w |-> <<0, 0, 0, 9, 0, 0, 0>>]}

Daily3(t, p, w) ==
  [temperature_2m_max |-> t, precipitation_sum |-> p, wind_speed_10m_max |-> w]

WeekInputs ==
  {Daily3(t, o.p, o.w) : t \in [1..7 -> WeekTempVals], o \in OtherSeries}
  \cup
  {Daily3(o.t, p, o.w) : p \in [1..7 -> WeekAmountVals], o \in OtherSeries}
  \cup
  {Daily3(o.t, o.p, w) : w \in [1..7 -> WeekAmountVals], o \in OtherSeries}

InitWeekly == input \in WeekInputs /\ fn = "" /\ ret = NoReturn /\ WorldAtRest

CallCalculateWeeklyComparison ==
  /\ fn' = "calculateWeeklyComparison"
  /\ ret' = calculateWeeklyComparison(input)
  /\ UNCHANGED input
  /\ UNCHANGED world

NextWeekly == CallCalculateWeeklyComparison

SpecWeekly == InitWeekly /\ [][NextWeekly]_vars

\* the values one day of a series may be replaced by
ReplacementVals == {-3, 30}

WeekFields == {"temperature_2m_max", "precipitation_sum", "wind_speed_10m_max"}

\* C1: on 7-element series each metric's change is computed from days 0..2
\* and days 4..6 only: the temperature change is mean(max[4..6]) -
\* mean(max[0..2]), and replacing the value of day 3 in any series changes
\* no field of the result.
C1_WeeklySplitExcludesDay3 ==
  fn = "calculateWeeklyComparison" =>
    LET t == input.temperature_2m_max
        p == input.precipitation_sum
        w == input.wind_speed_10m_max
    IN  /\ ret.temperature.change = R((t[5] + t[6] + t[7]) - (t[1] + t[2] + t[3]), 3)
        /\ ret.precipitation.change = N((p[5] + p[6] + p[7]) - (p[1] + p[2] + p[3]))
        /\ ret.wind.change = R((w[5] + w[6] + w[7]) - (w[1] + w[2] + w[3]), 3)
        /\ \A f \in WeekFields : \A v \in ReplacementVals :
             calculateWeeklyComparison([input EXCEPT ![f][4] = v]) = ret

\* a week whose day 3 is the hottest of the series and whose second half is
\* cooler than its first
C1_Witness ==
  /\ fn = "calculateWeeklyComparison"
  /\ \A i \in {1, 2, 3, 5, 6, 7} :
       input.temperature_2m_max[i] < input.temperature_2m_max[4]
  /\ ret.temperature.change = N(-2)
  /\ ret.temperature.direction = "cooler"

\* C2: when the mean of the first three daily maxima is 0 the temperature
\* percentage is 0, and when the first three precipitation totals sum to 0
\* the precipitation percentage is 0.
C2_PercentageZeroOnZeroBase ==
  fn = "calculateWeeklyComparison" =>
    LET t == input.temperature_2m_max
        p == input.precipitation_sum
    IN  /\ (t[1] + t[2] + t[3] = 0) => ret.temperature.percentage = Zero
        /\ (p[1] + p[2] + p[3] = 0) => ret.precipitation.percentage = Zero

(***************************************************************************)
(* Specification SpecWindows: findOptimalWindows on hourly comfort lists.  *)
(* Every list of at most MaxMixedLen hours over three scores, and every    *)
(* longer list of at most MaxWinLen hours over two scores; the hours are   *)
(* consecutive hours of one day from a start hour.                         *)
(***************************************************************************)
MaxMixedLen == 7

MaxWinLen == 13

WindowScores == {65, 70, 91}

LongListScores == {65, 75}

WindowStartHours == {5, 12}

ScoreLists ==
  UNION {[1..k -> WindowScores] : k \in 0..MaxMixedLen}
  \cup UNION {[1..k -> LongListScores] : k \in (MaxMixedLen + 1)..MaxWinLen}

HourlyComfortList(h0, scores) ==
  [k \in 1..Len(scores) |->
     [hour |-> getHours(h0 + k - 1), time |-> getHours(h0 + k - 1),
      score |-> N(scores[k])]]

InitWindows ==
  /\ input \in {HourlyComfortList(h0, sc) : h0 \in WindowStartHours, sc \in ScoreLists}
  /\ fn = ""
  /\ ret = NoReturn
  /\ WorldAtRest

CallFindOptimalWindows ==
  /\ fn' = "findOptimalWindows"
  /\ ret' = findOptimalWindows(input)
  /\ UNCHANGED input
  /\ UNCHANGED world

NextWindows == CallFindOptimalWindows

SpecWindows == InitWindows /\ [][NextWindows]_vars

\* the position in the list of the hour shown as time t (the hours of a list
\* are distinct)
IndexOfTime(t) == CHOOSE i \in 1..Len(input) : input[i].time = t

\* the hours a window covers
HoursOf(w) == IndexOfTime(w.start)..IndexOfTime(w.end)

\* C5: every emitted window covers at least 2 consecutive hours, all of score
\* 70 or more; no two emitted windows share an hour; at most 3 windows are
\* returned.
C5_WindowsWellFormed ==
  fn = "findOptimalWindows" =>
    /\ Len(ret) <= 3
    /\ \A k \in 1..Len(ret) :
         /\ \E i \in 1..Len(input) : input[i].time = ret[k].start
         /\ \E i \in 1..Len(input) : input[i].time = ret[k].end
         /\ Cardinality(HoursOf(ret[k])) >= 2
         /\ \A i \in HoursOf(ret[k]) : Ge(input[i].score, N(70))
    /\ \A k, l \in 1..Len(ret) : k # l => HoursOf(ret[k]) \cap HoursOf(ret[l]) = {}

\* a list with four qualifying runs and a run of a single hour: three windows
\* are returned
C5_Witness ==
  /\ fn = "findOptimalWindows"
  /\ Len(ret) = 3
  /\ Len(findOptimalWindowsLoop(input, 0, NoWindow, <<>>)) = 4
  /\ \E i \in 2..(Len(input) - 1) :
       /\ Ge(input[i].score, N(70))
       /\ ~Ge(input[i - 1].score, N(70))
       /\ ~Ge(input[i + 1].score, N(70))

(***************************************************************************)
(* Specification SpecComfort: calculateComfortIndex on snapshots.  The     *)
(* current sample ranges over the samples with at most two factors off     *)
(* their ideal value and over the samples with every factor ideal or       *)
(* extreme; the hourly series range over 0..MaxHours hours that repeat one *)
(* of a few patterns of samples.                                           *)
(***************************************************************************)
MaxHours == 26

ComfortTemps == {5, 6, 17, 18, 21, 24, 25, 36, 37, 42}

\* feelsLike - temp
ComfortGaps == {-11, -4, -3, 0, 3, 4, 10}

ComfortHumidities == {0, 20, 29, 30, 40, 50, 60, 70, 71, 100}

ComfortWinds == {5, 15, 16, 55, 56, 80}

ComfortUVs == {0, 5, 6, 9, 12, 13}

ComfortPrecips == {0, 1, 5, 6}

Sample(t, g, h, w, u, p) ==
  [temp |-> t, feelsLike |-> t + g, humidity |-> h, wind |-> w, uv |-> u, precip |-> p]

Factors == {"temp", "gap", "humidity", "wind", "uv", "precip"}

\* the ideal column of the scoring table
IsIdeal(f, s) ==
  CASE f = "temp" -> s.temp = 21
    [] f = "gap" -> s.feelsLike = s.temp
    [] f = "humidity" -> s.humidity >= 40 /\ s.humidity <= 60
    [] f = "wind" -> s.wind <= 15
    [] f = "uv" -> s.uv <= 5
    [] f = "precip" -> s.precip = 0

IsExtreme(s) ==
  /\ s.temp \in {21, 42}
  /\ s.feelsLike - s.temp \in {0, -11}
  /\ s.humidity \in {50, 100}
  /\ s.wind \in {5, 80}
  /\ s.uv \in {0, 13}
  /\ s.precip \in {0, 6}

IdealSample == Sample(21, 0, 50, 5, 0, 0)

\* spec section 8: temperature 42, humidity 20, wind 5, no rain, UV 9
ScenarioSample == Sample(42, 0, 20, 5, 9, 0)

ComfortSamples ==
  {s \in {Sample(t, g, h, w, u, p) :
            t \in ComfortTemps, g \in ComfortGaps, h \in ComfortHumidities,
            w \in ComfortWinds, u \in ComfortUVs, p \in ComfortPrecips} :
     Cardinality({f \in Factors : ~IsIdeal(f, s)}) <= 2 \/ IsExtreme(s)}
  \cup {ScenarioSample}

HourPatterns ==
  {<<IdealSample>>,
   <<Sample(25, 4, 71, 16, 6, 1), IdealSample, Sample(36, 10, 100, 56, 12, 5)>>,
   <<ScenarioSample, Sample(17, -4, 29, 15, 5, 0)>>}

ComfortStartHour == 5

CurrentOf(s) ==
  [temperature_2m |-> s.temp, relative_humidity_2m |-> s.humidity,
   apparent_temperature |-> s.feelsLike, precipitation |-> s.precip,
   wind_speed_10m |-> s.wind]

PatternAt(pat, k) == pat[((k - 1) % Len(pat)) + 1]

HourlyOf(n, pat) ==
  [time |-> [k \in 1..n |-> ComfortStartHour + k - 1],
   temperature_2m |-> [k \in 1..n |-> PatternAt(pat, k).temp],
   relative_humidity_2m |-> [k \in 1..n |-> PatternAt(pat, k).humidity],
   apparent_temperature |-> [k \in 1..n |-> PatternAt(pat, k).feelsLike],
   precipitation |-> [k \in 1..n |-> PatternAt(pat, k).precip],
   wind_speed_10m |-> [k \in 1..n |-> PatternAt(pat, k).wind],
   uv_index |-> [k \in 1..n |-> PatternAt(pat, k).uv]]

ComfortSnapshot(s, n, pat) ==
  [current |-> CurrentOf(s), hourly |-> HourlyOf(n, pat),
   daily |-> [uv_index_max |-> <<s.uv>>]]

ComfortInputs ==
  {ComfortSnapshot(s, 2, <<IdealSample>>) : s \in ComfortSamples}
  \cup
  {ComfortSnapshot(s, n, pat) :
     s \in {IdealSample, ScenarioSample}, n \in 0..MaxHours, pat \in HourPatterns}

InitComfort == input \in ComfortInputs /\ fn = "" /\ ret = NoReturn /\ WorldAtRest

CallCalculateComfortIndex ==
  /\ fn' = "calculateComfortIndex"
  /\ ret' = calculateComfortIndex(input)
  /\ UNCHANGED input
  /\ UNCHANGED world

NextComfort == CallCalculateComfortIndex

SpecComfort == InitComfort /\ [][NextComfort]_vars

MinInt(a, b) == IF a < b THEN a ELSE b

MaxInt(a, b) == IF a > b THEN a ELSE b

\* twice the sum of the six capped deductions of the scoring table
TableDeductions2(s) ==
  (IF AbsInt(s.temp - 21) > 3 THEN MinInt(60, 4 * AbsInt(s.temp - 21)) ELSE 0)
  + (IF AbsInt(s.feelsLike - s.temp) > 3
     THEN MinInt(30, 3 * AbsInt(s.feelsLike - s.temp)) ELSE 0)
  + (IF s.humidity > 70 THEN MinInt(40, s.humidity - 70)
     ELSE IF s.humidity < 30 THEN MinInt(40, 30 - s.humidity) ELSE 0)
  + (IF s.wind > 15 THEN MinInt(40, s.wind - 15) ELSE 0)
  + (IF s.uv > 5 THEN MinInt(30, 4 * (s.uv - 5)) ELSE 0)
  + (IF s.precip > 0 THEN MinInt(50, 10 * s.precip) ELSE 0)

\* max(0, round(100 - sum of deductions)), a half rounding up
TableScore(s) == MaxInt(0, (200 - TableDeductions2(s) + 1) \div 2)

\* the sample calculateComfortIndex reads for the current conditions
CurrentSample ==
  [temp |-> input.current.temperature_2m,
   feelsLike |-> input.current.apparent_temperature,
   humidity |-> input.current.relative_humidity_2m,
   wind |-> input.current.wind_speed_10m,
   uv |-> input.daily.uv_index_max[1],
   precip |-> input.current.precipitation]

\* the sample of hour i (from 1)
HourSample(i) ==
  [temp |-> input.hourly.temperature_2m[i],
   feelsLike |-> input.hourly.apparent_temperature[i],
   humidity |-> input.hourly.relative_humidity_2m[i],
   wind |-> input.hourly.wind_speed_10m[i],
   uv |-> input.hourly.uv_index[i],
   precip |-> input.hourly.precipitation[i]]

\* C3: the comfort score is max(0, round(100 - sum of the six independently
\* capped deductions of the table)), an integer in 0..100, and
\* calculateComfortIndex applies it to the current sample and to each of the
\* first min(24, N) hours.
C3_ComfortScoreTable ==
  fn = "calculateComfortIndex" =>
    /\ ret.currentComfort = N(TableScore(CurrentSample))
    /\ ret.currentComfort.d = 1
    /\ ret.currentComfort.n \in 0..100
    /\ Len(ret.hourlyComfort) = MinInt(24, Len(input.hourly.time))
    /\ \A i \in 1..Len(ret.hourlyComfort) :
         /\ ret.hourlyComfort[i].score = N(TableScore(HourSample(i)))
         /\ ret.hourlyComfort[i].score.n \in 0..100

\* the scenario of spec section 8 (deductions 30, 5 and 8) with more than 24
\* hourly samples
C3_Witness ==
  /\ fn = "calculateComfortIndex"
  /\ CurrentSample = ScenarioSample
  /\ ret.currentComfort = N(57)
  /\ Len(input.hourly.time) > 24
  /\ Len(ret.hourlyComfort) = 24
  /\ \E i \in 1..24 : ret.hourlyComfort[i].score = Zero

\* how far a factor of a sample is from its ideal value
Deviation(f, s) ==
  CASE f = "temp" -> AbsInt(s.temp - 21)
    [] f = "humidity" -> MaxInt(0, MaxInt(40 - s.humidity, s.humidity - 60))
    [] f = "wind" -> MaxInt(0, s.wind - 15)
    [] f = "uv" -> MaxInt(0, s.uv - 5)
    [] f = "precip" -> s.precip

\* the sample s with factor f set to v; feelsLike follows temp
WithFactor(s, f, v) ==
  CASE f = "temp" -> [s EXCEPT !.temp = v, !.feelsLike = v]
    [] f = "humidity" -> [s EXCEPT !.humidity = v]
    [] f = "wind" -> [s EXCEPT !.wind = v]
    [] f = "uv" -> [s EXCEPT !.uv = v]
    [] f = "precip" -> [s EXCEPT !.precip = v]

FactorValues(f) ==
  CASE f = "temp" -> ComfortTemps
    [] f = "humidity" -> ComfortHumidities
    [] f = "wind" -> ComfortWinds
    [] f = "uv" -> ComfortUVs
    [] f = "precip" -> ComfortPrecips

ScoreOfSample(s) ==
  calculateComfortScore(N(s.temp), N(s.humidity), N(s.wind), N(s.uv), N(s.precip),
                        N(s.feelsLike))

\* C4: with every other factor at its ideal value (feelsLike equal to temp),
\* the score does not increase when one factor's distance from its ideal
\* grows: |temp - 21|, humidity outside [40,60], wind above 15, UV above 5,
\* precipitation.
C4_ComfortScoreMonotone ==
  fn = "calculateComfortIndex" =>
    \A f \in Factors \ {"gap"} :
      (\A g \in Factors \ {f} : IsIdeal(g, CurrentSample)) =>
        \A v \in FactorValues(f) :
          Deviation(f, WithFactor(CurrentSample, f, v)) >= Deviation(f, CurrentSample)
            => Le(ScoreOfSample(WithFactor(CurrentSample, f, v)), ret.currentComfort)

\* a dry sample (humidity 20, all else ideal) that scores 95, above the score
\* of the drier sample of humidity 0
C4_Witness ==
  /\ fn = "calculateComfortIndex"
  /\ CurrentSample = Sample(21, 0, 20, 5, 0, 0)
  /\ ret.currentComfort = N(95)
  /\ Lt(ScoreOfSample(Sample(21, 0, 0, 5, 0, 0)), ret.currentComfort)


(***************************************************************************)
(* Specification SpecEntry: the four calculator entry points on snapshots  *)
(* that are null, lack a group, lack an array, or carry short arrays.      *)
(***************************************************************************)
MaxDays == 7

MaxEntryHours == 30

\* three weather regimes; every array of a snapshot is derived from one
Regimes ==
  {[temp |-> 20, tempStep |-> 0, precip |-> 0, prob |-> 10, wind |-> 8, gust |-> 15,
    pressure |-> 1013, humidity |-> 50, uv |-> 4],
   [temp |-> 34, tempStep |-> 1, precip |-> 0, prob |-> 0, wind |-> 5, gust |-> 10,
    pressure |-> 1025, humidity |-> 20, uv |-> 9],
   [temp |-> 3, tempStep |-> -1, precip |-> 12, prob |-> 80, wind |-> 45, gust |-> 70,
    pressure |-> 990, humidity |-> 90, uv |-> 1]}

EntryHourCounts == {0, 3, MaxEntryHours}

Filled(n, v) == [k \in 1..n |-> v]

\* a snapshot that carries every field the four calculators read
Snapshot(g, nHours, nDays) ==
  [current |->
     [temperature_2m |-> g.temp, relative_humidity_2m |-> g.humidity,
      apparent_temperature |-> g.temp, precipitation |-> g.precip,
      pressure_msl |-> g.pressure, wind_speed_10m |-> g.wind,
      wind_gusts_10m |-> g.gust],
   hourly |->
     [time |-> [k \in 1..nHours |-> ComfortStartHour + k - 1],
      temperature_2m |-> [k \in 1..nHours |-> g.temp - (k % 3)],
      relative_humidity_2m |-> Filled(nHours, g.humidity),
      apparent_temperature |-> Filled(nHours, g.temp),
      precipitation_probability |-> Filled(nHours, g.prob),
      precipitation |-> Filled(nHours, g.precip),
      wind_speed_10m |-> Filled(nHours, g.wind),
      uv_index |-> Filled(nHours, g.uv),
      pressure_msl |-> [k \in 1..nHours |-> g.pressure + g.tempStep * k],
      wind_gusts_10m |-> Filled(nHours, g.gust)],
   daily |->
     [temperature_2m_max |-> [k \in 1..nDays |-> g.temp + g.tempStep * (k - 1)],
      temperature_2m_min |-> [k \in 1..nDays |-> g.temp - 8 + g.tempStep * (k - 1)],
      uv_index_max |-> Filled(nDays, g.uv),
      precipitation_sum |-> Filled(nDays, g.precip),
      precipitation_probability_max |-> Filled(nDays, g.prob),
      wind_speed_10m_max |-> Filled(nDays, g.wind),
      relative_humidity_2m_max |-> Filled(nDays, g.humidity)]]

\* obj with property f absent
Without(obj, f) == [k \in DOMAIN obj \ {f} |-> obj[k]]

\* the snapshot with property f of its group absent
WithoutIn(weatherData, group, f) ==
  [k \in DOMAIN weatherData |->
     IF k = group THEN Without(weatherData[k], f) ELSE weatherData[k]]

\* the snapshot as the request of fetchWeatherData delivers it: the hourly
\* list asks for neither pressure_msl nor wind_gusts_10m, the daily list does
\* not ask for relative_humidity_2m_max
AsFetched(weatherData) ==
  WithoutIn(WithoutIn(WithoutIn(weatherData, "hourly", "pressure_msl"),
                      "hourly", "wind_gusts_10m"),
            "daily", "relative_humidity_2m_max")

Groups == {"current", "hourly", "daily"}

FullSnapshots == {Snapshot(g, MaxEntryHours, MaxDays) : g \in Regimes}

SizedSnapshots ==
  {Snapshot(g, h, d) : g \in Regimes, h \in EntryHourCounts, d \in 0..MaxDays}

GroupAbsent == {Without(w, group) : w \in FullSnapshots, group \in Groups}

ArrayAbsent ==
  UNION {{WithoutIn(w, group, f) : f \in DOMAIN w[group]} :
           w \in FullSnapshots, group \in {"hourly", "daily"}}

FetchedSnapshots == {AsFetched(w) : w \in FullSnapshots}

EntryInputs ==
  {Null} \cup SizedSnapshots \cup GroupAbsent \cup ArrayAbsent \cup FetchedSnapshots

InitEntry ==
  /\ input \in EntryInputs
  /\ fn = ""
  /\ ret = NoReturn
  /\ WorldAtRest

CallAnalyzeWeatherTrends ==
  /\ fn' = "analyzeWeatherTrends"
  /\ ret' = analyzeWeatherTrends(input)
  /\ UNCHANGED input
  /\ UNCHANGED world

CallAnalyzeWeatherPatterns ==
  /\ fn' = "analyzeWeatherPatterns"
  /\ ret' = analyzeWeatherPatterns(input)
  /\ UNCHANGED input
  /\ UNCHANGED world

CallForecastWeatherImpacts ==
  /\ fn' = "forecastWeatherImpacts"
  /\ ret' = forecastWeatherImpacts(input)
  /\ UNCHANGED input
  /\ UNCHANGED world

NextEntry ==
  \/ CallCalculateComfortIndex
  \/ CallAnalyzeWeatherTrends
  \/ CallAnalyzeWeatherPatterns
  \/ CallForecastWeatherImpacts

SpecEntry == InitEntry /\ [][NextEntry]_vars


AllGroupsPresent(weatherData) == \A group \in Groups : Has(weatherData, group)

\* C6: every entry point called with a null snapshot, or with a snapshot in
\* which one of the groups current, hourly, daily is absent, returns a result
\* and does not throw.
C6_MissingGroupNeverThrows ==
  (fn # "" /\ ~AllGroupsPresent(input)) => ret # Throw

\* a field one of analyzeWeatherPatterns / forecastWeatherImpacts reads is
\* absent from its group
ReferencedFieldAbsent(weatherData) ==
  \/ \E f \in PatternHourlyReads \cup ImpactHourlyReads : ~Has(weatherData.hourly, f)
  \/ \E f \in PatternDailyReads \cup ImpactDailyReads : ~Has(weatherData.daily, f)

\* C7: with all three groups present and an individual array the calculator
\* references absent, analyzeWeatherPatterns and forecastWeatherImpacts return
\* a result (the field counting as 0/absent) and do not throw.
C7_MissingArrayNeverThrows ==
  (/\ fn \in {"analyzeWeatherPatterns", "forecastWeatherImpacts"}
   /\ AllGroupsPresent(input)
   /\ ReferencedFieldAbsent(input)) => ret # Throw

\* every daily array the trend analyser reads is present and shorter than 7
DailyTooShort(weatherData) ==
  /\ AllGroupsPresent(weatherData)
  /\ \A f \in WeeklyComparisonReads \cup TrendInsightsReads \cup TrendsReads :
       Has(weatherData.daily, f) /\ Len(weatherData.daily[f]) < 7

\* the change, percentage and slope values of a trend analysis are all finite
TrendNumbersFinite(analysis) ==
  /\ \A metric \in DOMAIN analysis.weeklyComparison :
       LET m == analysis.weeklyComparison[metric]
       IN  IsFinite(m.change) /\ (Has(m, "percentage") => IsFinite(m.percentage))
  /\ \A i \in DOMAIN analysis.trends : IsFinite(analysis.trends[i].slope)

\* C8: when the daily arrays hold fewer than 7 entries analyzeWeatherTrends
\* does not throw and returns no NaN or infinite change, percentage or slope.
C8_ShortDailyArraysStayFinite ==
  (fn = "analyzeWeatherTrends" /\ DailyTooShort(input)) =>
    (ret # Throw /\ TrendNumbersFinite(ret))


(***************************************************************************)
(* Specification SpecAnomalies: detectAnomalies on today's UV index and    *)
(* today's maximum and minimum temperature.                                *)
(***************************************************************************)
AnomalyUVs == {0, 7, 8, 11}

AnomalyMaxTemps == {-2, 20, 34, 35, 41}

AnomalyMinTemps == {-12, -1, 0, 1, 28}

\* the second day of each array is one detectAnomalies would alert on
AnomalyInputs ==
  {[uv_index_max |-> <<uv, 9>>,
    temperature_2m_max |-> <<hi, 36>>,
    temperature_2m_min |-> <<lo, -4>>] :
     uv \in AnomalyUVs, hi \in AnomalyMaxTemps, lo \in AnomalyMinTemps}

InitAnomalies ==
  /\ input \in AnomalyInputs
  /\ fn = ""
  /\ ret = NoReturn
  /\ WorldAtRest

CallDetectAnomalies ==
  /\ fn' = "detectAnomalies"
  /\ ret' = detectAnomalies(Null, input)
  /\ UNCHANGED input
  /\ UNCHANGED world

NextAnomalies == CallDetectAnomalies

SpecAnomalies == InitAnomalies /\ [][NextAnomalies]_vars

\* the list holds a record with this title
HasTitle(list, title) == \E i \in DOMAIN list : list[i].title = title

\* C11: the UV alert is emitted exactly when uv_index_max[0] >= 8, the heat-wave
\* alert exactly when temperature_2m_max[0] >= 35 and the freeze alert exactly
\* when temperature_2m_min[0] <= 0, each whatever the other two do.
C11_AnomaliesIndependent ==
  fn = "detectAnomalies" =>
    /\ HasTitle(ret, "Very High UV Index Alert") <=> input.uv_index_max[1] >= 8
    /\ HasTitle(ret, "Heat Wave Conditions") <=> input.temperature_2m_max[1] >= 35
    /\ HasTitle(ret, "Freezing Conditions Expected") <=> input.temperature_2m_min[1] <= 0


(***************************************************************************)
(* Event detector.  A daily timestamp is a count of whole days: its        *)
(* weekday is the count modulo 7 and its locale date string is decided by  *)
(* the count.  An event's description is the tuple of the values its       *)
(* template interpolates.                                                  *)
(***************************************************************************)
\* undefined: an index past the end of an array (the arrays hold numbers only)
IsUndefined(x) == IsNaN(x)

\* arr ? arr[day] : 0
OptionalAt(obj, f, i) == IF Has(obj, f) THEN At(obj[f], i) ELSE Zero

Weekdays ==
  <<"Sunday", "Monday", "Tuesday", "Wednesday", "Thursday", "Friday", "Saturday">>

dayNameOf(daily, day) ==
  IF day = 0 THEN "Today"
  ELSE IF day = 1 THEN "Tomorrow"
  ELSE Weekdays[(daily.time[day + 1] % 7) + 1]

calculateHeatwaveProbability(daily, day) ==
  LET temp == At(daily.temperature_2m_max, day)
  IN  IF Gt(temp, N(38)) THEN N(95)
      ELSE IF Gt(temp, N(35)) THEN N(85)
      ELSE IF Gt(temp, N(32)) THEN N(75)
      ELSE N(60)

calculateColdSnapProbability(daily, day) ==
  LET temp == At(daily.temperature_2m_min, day)
  IN  IF Lt(temp, Zero) THEN N(95)
      ELSE IF Lt(temp, N(3)) THEN N(85)
      ELSE IF Lt(temp, N(5)) THEN N(75)
      ELSE N(60)

calculateWindProbability(wind, gusts) ==
  IF Gt(gusts, N(80)) THEN N(90)
  ELSE IF Gt(gusts, N(60)) THEN N(80)
  ELSE IF Gt(wind, N(50)) THEN N(75)
  ELSE IF Gt(wind, N(40)) THEN N(70)
  ELSE N(60)

\* countConsecutiveDays(values, startIndex, temp => temp > limit)
RECURSIVE countConsecutiveDays(_, _, _)
countConsecutiveDays(values, startIndex, limit) ==
  IF startIndex < Len(values) /\ values[startIndex + 1] > limit
  THEN 1 + countConsecutiveDays(values, startIndex + 1, limit)
  ELSE 0

\* dayHourly.weather_code.filter(code => code >= 95 && code <= 99).length
RECURSIVE CountThunderCodes(_)
CountThunderCodes(codes) ==
  IF Len(codes) = 0 THEN 0
  ELSE (IF codes[1] >= 95 /\ codes[1] <= 99 THEN 1 ELSE 0) + CountThunderCodes(Tail(codes))

eventRecord(type, daily, day, probability, severity, details, description) ==
  [type |-> type, day |-> dayNameOf(daily, day), date |-> daily.time[day + 1],
   probability |-> probability, severity |-> severity, details |-> details,
   description |-> description]


\* an array-returning function that threw a TypeError
Thrown == <<Throw>>

\* Each detector of one loop iteration yields the events it pushes (none or
\* one), or Thrown when it calls toFixed on, or indexes, an undefined value.
heatwaveEvent(daily, day) ==
  LET maxTemp == At(daily.temperature_2m_max, day)
      duration == countConsecutiveDays(daily.temperature_2m_max, day, 32)
  IN  IF Gt(maxTemp, N(32)) /\ Gt(At(daily.temperature_2m_max, day + 1), N(32))
      THEN IF ~Has(daily, "uv_index_max") THEN Thrown
           ELSE <<eventRecord("heatwave", daily, day,
                              calculateHeatwaveProbability(daily, day),
                              IF Gt(maxTemp, N(38)) THEN "extreme" ELSE "high",
                              [maxTemp |-> maxTemp, duration |-> duration,
                               uvIndex |-> At(daily.uv_index_max, day)],
                              <<ToFixed(maxTemp, 0), duration>>)>>
      ELSE <<>>

\* a cold snap decided by the minimum alone
ColdSnapOnMinimum(daily, day) ==
  LET minTemp == At(daily.temperature_2m_min, day)
      maxTemp == At(daily.temperature_2m_max, day)
  IN  IF Lt(minTemp, N(5))
      THEN <<eventRecord("cold_snap", daily, day,
                         calculateColdSnapProbability(daily, day),
                         IF Lt(minTemp, Zero) THEN "extreme" ELSE "moderate",
                         [minTemp |-> minTemp, maxTemp |-> maxTemp],
                         <<ToFixed(minTemp, 0), ToFixed(maxTemp, 0)>>)>>
      ELSE <<>>

coldSnapEvent(daily, day) ==
  LET minTemp == At(daily.temperature_2m_min, day)
      maxTemp == At(daily.temperature_2m_max, day)
  IN  IF Lt(minTemp, N(5)) /\ Lt(maxTemp, N(12))
      THEN <<eventRecord("cold_snap", daily, day,
                         calculateColdSnapProbability(daily, day),
                         IF Lt(minTemp, Zero) THEN "extreme" ELSE "moderate",
                         [minTemp |-> minTemp, maxTemp |-> maxTemp],
                         <<ToFixed(minTemp, 0), ToFixed(maxTemp, 0)>>)>>
      ELSE <<>>

HeavyRainFromThreshold(daily, day) ==
  LET totalPrecip == OptionalAt(daily, "precipitation_sum", day)
      maxPrecipProb == At(daily.precipitation_probability_max, day)
  IN  IF Ge(totalPrecip, N(15)) \/ Gt(maxPrecipProb, N(70))
      THEN IF IsUndefined(totalPrecip) THEN Thrown
           ELSE <<eventRecord("heavy_rain", daily, day, maxPrecipProb,
                              IF Gt(totalPrecip, N(30)) THEN "high" ELSE "moderate",
                              [totalPrecipitation |-> totalPrecip,
                               maxProbability |-> maxPrecipProb],
                              <<ToFixed(totalPrecip, 1), maxPrecipProb>>)>>
      ELSE <<>>

heavyRainEvent(daily, day) ==
  LET totalPrecip == OptionalAt(daily, "precipitation_sum", day)
      maxPrecipProb == At(daily.precipitation_probability_max, day)
  IN  IF Gt(totalPrecip, N(15)) \/ Gt(maxPrecipProb, N(70))
      THEN IF IsUndefined(totalPrecip) THEN Thrown
           ELSE <<eventRecord("heavy_rain", daily, day, maxPrecipProb,
                              IF Gt(totalPrecip, N(30)) THEN "high" ELSE "moderate",
                              [totalPrecipitation |-> totalPrecip,
                               maxProbability |-> maxPrecipProb],
                              <<ToFixed(totalPrecip, 1), maxPrecipProb>>)>>
      ELSE <<>>

thunderstormEvent(hourly, daily, day) ==
  LET dayStart == day * 24
      dayEnd == IF (day + 1) * 24 < Len(hourly.time) THEN (day + 1) * 24
                ELSE Len(hourly.time)
      thunderstormHours == CountThunderCodes(Slice(hourly.weather_code, dayStart, dayEnd))
      hasThunderstorm == thunderstormHours > 0
      maxPrecipProb == At(daily.precipitation_probability_max, day)
      maxTemp == At(daily.temperature_2m_max, day)
  IN  IF hasThunderstorm \/ (Gt(maxPrecipProb, N(60)) /\ Gt(maxTemp, N(25)))
      THEN <<eventRecord("thunderstorm", daily, day,
                         IF hasThunderstorm THEN N(85) ELSE N(60),
                         IF thunderstormHours > 3 THEN "high" ELSE "moderate",
                         [expectedHours |-> thunderstormHours, temperature |-> maxTemp],
                         IF thunderstormHours > 0 THEN <<thunderstormHours>> ELSE <<>>)>>
      ELSE <<>>

strongWindEvent(daily, day) ==
  LET maxWind == OptionalAt(daily, "wind_speed_10m_max", day)
      maxGusts == OptionalAt(daily, "wind_gusts_10m_max", day)
  IN  IF Gt(maxWind, N(40)) \/ Gt(maxGusts, N(60))
      THEN IF IsUndefined(maxWind) \/ IsUndefined(maxGusts) THEN Thrown
           ELSE <<eventRecord("strong_wind", daily, day,
                              calculateWindProbability(maxWind, maxGusts),
                              IF Gt(maxGusts, N(80)) THEN "extreme"
                              ELSE IF Gt(maxGusts, N(60)) THEN "high" ELSE "moderate",
                              [maxWind |-> maxWind, maxGusts |-> maxGusts],
                              <<ToFixed(maxWind, 0), ToFixed(maxGusts, 0)>>)>>
      ELSE <<>>

frontEvent(daily, day) ==
  LET previousTemp == At(daily.temperature_2m_max, day - 1)
      newTemp == At(daily.temperature_2m_max, day)
      tempChange == Sub(newTemp, previousTemp)
      warming == Gt(tempChange, Zero)
  IN  IF day > 0 /\ Gt(MathAbs(tempChange), N(10))
      THEN <<eventRecord(IF warming THEN "warm_front" ELSE "cold_front", daily, day,
                         N(80),
                         IF Gt(MathAbs(tempChange), N(15)) THEN "high" ELSE "moderate",
                         [temperatureChange |-> tempChange, previousTemp |-> previousTemp,
                          newTemp |-> newTemp],
                         <<IF warming THEN "Warming" ELSE "Cooling",
                           ToFixed(MathAbs(tempChange), 0),
                           IF warming THEN "increase" ELSE "decrease">>)>>
      ELSE <<>>

\* the events one iteration of the day loop pushes, in push order
dayEvents(hourly, daily, day) ==
  LET parts == <<heatwaveEvent(daily, day), coldSnapEvent(daily, day),
                 heavyRainEvent(daily, day), thunderstormEvent(hourly, daily, day),
                 strongWindEvent(daily, day), frontEvent(daily, day)>>
  IN  IF \E i \in DOMAIN parts : parts[i] = Thrown THEN Thrown
      ELSE parts[1] \o parts[2] \o parts[3] \o parts[4] \o parts[5] \o parts[6]


\* events.sort((a, b) => b.probability - a.probability): Array.prototype.sort
\* is stable, so an event goes before the first one of lower probability
RECURSIVE InsertAheadOfTies(_, _)
InsertAheadOfTies(sorted, e) ==
  IF Len(sorted) = 0 THEN <<e>>
  ELSE IF Ge(e.probability, sorted[1].probability) THEN <<e>> \o sorted
  ELSE <<sorted[1]>> \o InsertAheadOfTies(Tail(sorted), e)

RECURSIVE insertByProbability(_, _)
insertByProbability(sorted, e) ==
  IF Len(sorted) = 0 THEN <<e>>
  ELSE IF Gt(e.probability, sorted[1].probability) THEN <<e>> \o sorted
  ELSE <<sorted[1]>> \o insertByProbability(Tail(sorted), e)

RECURSIVE sortByProbability(_)
sortByProbability(events) ==
  IF Len(events) = 0 THEN <<>>
  ELSE insertByProbability(sortByProbability(SubSeq(events, 1, Len(events) - 1)),
                           events[Len(events)])

\* the events pushed by the iterations day, day + 1, .., days - 1
RECURSIVE eventsFrom(_, _, _, _)
eventsFrom(hourly, daily, day, days) ==
  IF day >= days THEN <<>>
  ELSE LET today == dayEvents(hourly, daily, day)
           later == eventsFrom(hourly, daily, day + 1, days)
       IN  IF today = Thrown \/ later = Thrown THEN Thrown ELSE today \o later

\* the arrays every iteration slices or indexes: absent, the iteration throws
EventHourlyReads ==
  {"time", "temperature_2m", "precipitation_probability", "wind_speed_10m", "weather_code"}

EventDailyReads ==
  {"temperature_2m_max", "temperature_2m_min", "precipitation_probability_max"}

\* the contents of `events` when the day loop ends, before the sort
pushedEvents(hourly, daily) ==
  IF daily = Null \/ ~Has(daily, "time") THEN Thrown
  ELSE LET days == IF Len(daily.time) < 7 THEN Len(daily.time) ELSE 7
       IN  IF days = 0 THEN <<>>
           ELSE IF \/ \E f \in EventHourlyReads : ~Has(hourly, f)
                   \/ \E f \in EventDailyReads : ~Has(daily, f)
           THEN Thrown
           ELSE eventsFrom(hourly, daily, 0, days)

\* Array.prototype.sort sorts its receiver in place and returns it: the
\* store after `receiver.sort((a, b) => b.probability - a.probability)`
sortInPlace(store, receiver) == [store EXCEPT ![receiver] = sortByProbability(@)]

\* the store of a loop that consumed daily.time with shift()
StoreAfterShiftingDays(hourly, daily) ==
  LET declared == [hourly |-> hourly, daily |-> daily, events |-> <<>>]
      pushed == pushedEvents(hourly, daily)
  IN  IF pushed = Thrown THEN declared
      ELSE sortInPlace([declared EXCEPT !.events = pushed,
                                        !.daily.time = SubSeq(@, 2, Len(@))], "events")

\* The arrays a call of detectWeatherEvents can reach, as the call leaves
\* them: its two arguments and `events`, the array declared at line 12.  The
\* slices of lines 19-25 are copies; push and sort, the only operations that
\* work in place, have `events` for receiver.  A call that throws leaves the
\* store as it was declared or with some events pushed; `events` is then
\* unreachable.
detectWeatherEventsStore(hourly, daily) ==
  LET declared == [hourly |-> hourly, daily |-> daily, events |-> <<>>]
      pushed == pushedEvents(hourly, daily)
  IN  IF pushed = Thrown THEN declared
      ELSE sortInPlace([declared EXCEPT !.events = pushed], "events")

\* `return events.sort(...)`: the value returned is the sorted receiver
detectWeatherEvents(hourly, daily) ==
  IF pushedEvents(hourly, daily) = Thrown THEN Thrown
  ELSE detectWeatherEventsStore(hourly, daily).events

\* e => e.probability > 70
RECURSIVE CountHighPriority(_)
CountHighPriority(events) ==
  IF Len(events) = 0 THEN 0
  ELSE (IF Gt(events[1].probability, N(70)) THEN 1 ELSE 0) + CountHighPriority(Tail(events))

\* a summary is the tuple of the interpolated count and the literal text
generateEventSummary(events) ==
  IF Len(events) = 0
  THEN <<"No significant weather events detected in the next 7 days">>
  ELSE IF CountHighPriority(events) = 0
  THEN <<Len(events), " potential weather events detected with moderate probability">>
  ELSE <<CountHighPriority(events),
         " high-probability weather events detected in the next 7 days">>


(***************************************************************************)
(* Specification SpecEvents: detectWeatherEvents, then generateEventSummary *)
(* of its result, on forecasts assembled day by day from a palette.        *)
(***************************************************************************)
MaxEventDays == 3

\* days of a forecast; thunderHours is the number of the day's 24 hourly
\* weather codes that are thunderstorm codes
CalmDays ==
  {[tmax |-> 22, tmin |-> 4, psum |-> 0, pprob |-> 10, wind |-> 10, gust |-> 20,
    thunderHours |-> 0],
   [tmax |-> 32, tmin |-> 5, psum |-> 15, pprob |-> 60, wind |-> 40, gust |-> 60,
    thunderHours |-> 0]}

EventfulDays ==
  {[tmax |-> 34, tmin |-> 20, psum |-> 0, pprob |-> 0, wind |-> 10, gust |-> 20,
    thunderHours |-> 0],
   [tmax |-> 39, tmin |-> 25, psum |-> 0, pprob |-> 0, wind |-> 45, gust |-> 20,
    thunderHours |-> 0],
   [tmax |-> 8, tmin |-> -2, psum |-> 0, pprob |-> 20, wind |-> 10, gust |-> 85,
    thunderHours |-> 0],
   [tmax |-> 20, tmin |-> 12, psum |-> 31, pprob |-> 75, wind |-> 10, gust |-> 20,
    thunderHours |-> 0],
   [tmax |-> 26, tmin |-> 15, psum |-> 2, pprob |-> 65, wind |-> 10, gust |-> 65,
    thunderHours |-> 0],
   [tmax |-> 24, tmin |-> 15, psum |-> 16, pprob |-> 85, wind |-> 10, gust |-> 20,
    thunderHours |-> 4]}

DayKinds == CalmDays \cup EventfulDays

\* the count of days of the first daily timestamp
EventStartDay == 3

\* the hourly and daily groups of the forecast whose days are `week`
Forecast(week) ==
  LET days == Len(week)
      hours == 24 * days
  IN  [hourly |->
         [time |-> [h \in 1..hours |-> 24 * EventStartDay + h - 1],
          temperature_2m |-> [h \in 1..hours |-> week[((h - 1) \div 24) + 1].tmin],
          precipitation_probability |->
            [h \in 1..hours |-> week[((h - 1) \div 24) + 1].pprob],
          wind_speed_10m |-> [h \in 1..hours |-> week[((h - 1) \div 24) + 1].wind],
          weather_code |->
            [h \in 1..hours |->
               IF (h - 1) % 24 < week[((h - 1) \div 24) + 1].thunderHours
               THEN 95 ELSE 3]],
       daily |->
         [time |-> [d \in 1..days |-> EventStartDay + d - 1],
          temperature_2m_max |-> [d \in 1..days |-> week[d].tmax],
          temperature_2m_min |-> [d \in 1..days |-> week[d].tmin],
          uv_index_max |-> [d \in 1..days |-> 5],
          precipitation_sum |-> [d \in 1..days |-> week[d].psum],
          precipitation_probability_max |-> [d \in 1..days |-> week[d].pprob],
          wind_speed_10m_max |-> [d \in 1..days |-> week[d].wind],
          wind_gusts_10m_max |-> [d \in 1..days |-> week[d].gust]]]

\* every forecast of 1..MaxEventDays days, every 7-day forecast of calm days,
\* and every such week followed by an eighth, eventful day
EventWeeks ==
  UNION {[1..n -> DayKinds] : n \in 1..MaxEventDays}
  \cup [1..7 -> CalmDays]
  \cup {Append(week, day) : week \in [1..7 -> CalmDays], day \in EventfulDays}

EventInputs == {Forecast(week) : week \in EventWeeks}

InitEvents ==
  /\ input \in EventInputs
  /\ fn = ""
  /\ ret = NoReturn
  /\ WorldAtRest

\* the caller's snapshot holds the two argument objects by reference, so it
\* shows whatever the call did to them
CallDetectWeatherEvents ==
  /\ fn = ""
  /\ fn' = "detectWeatherEvents"
  /\ ret' = detectWeatherEvents(input.hourly, input.daily)
  /\ LET store == detectWeatherEventsStore(input.hourly, input.daily)
     IN  input' = [input EXCEPT !.hourly = store.hourly, !.daily = store.daily]
  /\ UNCHANGED world

\* generateEventBasedForecast passes the detected events on to the summary
CallGenerateEventSummary ==
  /\ fn = "detectWeatherEvents"
  /\ ret # Thrown
  /\ fn' = "generateEventSummary"
  /\ ret' = generateEventSummary(ret)
  /\ UNCHANGED input
  /\ UNCHANGED world

NextEvents == CallDetectWeatherEvents \/ CallGenerateEventSummary

SpecEvents == InitEvents /\ [][NextEvents]_vars


\* no event threshold is crossed on day d (counted from 0) of the forecast
CalmDay(hourly, daily, d) ==
  LET tmax == daily.temperature_2m_max
      codes == Slice(hourly.weather_code, 24 * d, 24 * (d + 1))
  IN  /\ ~(tmax[d + 1] > 32 /\ d + 2 <= Len(tmax) /\ tmax[d + 2] > 32)
      /\ ~(daily.temperature_2m_min[d + 1] < 5 /\ tmax[d + 1] < 12)
      /\ ~(daily.precipitation_sum[d + 1] > 15)
      /\ ~(daily.precipitation_probability_max[d + 1] > 70)
      /\ \A h \in DOMAIN codes : codes[h] < 95 \/ codes[h] > 99
      /\ ~(daily.precipitation_probability_max[d + 1] > 60 /\ tmax[d + 1] > 25)
      /\ ~(daily.wind_speed_10m_max[d + 1] > 40)
      /\ ~(daily.wind_gusts_10m_max[d + 1] > 60)
      /\ d > 0 => AbsInt(tmax[d + 1] - tmax[d]) <= 10

\* the forecast covers days 0..6 and none of them crosses a threshold
CalmWeek(forecast) ==
  /\ Len(forecast.daily.time) >= 7
  /\ \A d \in 0..6 : CalmDay(forecast.hourly, forecast.daily, d)

\* C12 as stated: on an all-calm week detectWeatherEvents returns no events and
\* generateEventSummary reports "No significant weather events detected."
C12_CalmWeekSummaryAsStated ==
  CalmWeek(input) =>
    /\ fn = "detectWeatherEvents" => ret = <<>>
    /\ fn = "generateEventSummary" => ret = <<"No significant weather events detected.">>

\* C12 amended: on an all-calm week detectWeatherEvents returns no events and
\* generateEventSummary reports "No significant weather events detected in the
\* next 7 days".
C12_CalmWeekSummary ==
  CalmWeek(input) =>
    /\ fn = "detectWeatherEvents" => ret = <<>>
    /\ fn = "generateEventSummary" =>
         ret = <<"No significant weather events detected in the next 7 days">>

C12_Witness ==
  /\ fn = "generateEventSummary"
  /\ CalmWeek(input)
  /\ Len(input.daily.time) = 8
  /\ input.daily.precipitation_sum[1] = 15
  /\ input.daily.temperature_2m_max[8] = 39
  /\ ret = <<"No significant weather events detected in the next 7 days">>


\* the position of an event's type in the order the day loop pushes events
TypeRank(type) ==
  CASE type = "heatwave" -> 1
    [] type = "cold_snap" -> 2
    [] type = "heavy_rain" -> 3
    [] type = "thunderstorm" -> 4
    [] type = "strong_wind" -> 5
    [] type \in {"warm_front", "cold_front"} -> 6

\* event a was pushed before event b
DetectedBefore(a, b) ==
  \/ a.date < b.date
  \/ a.date = b.date /\ TypeRank(a.type) < TypeRank(b.type)

\* C13: the list detectWeatherEvents returns is in descending order of
\* probability, and events of equal probability are in the order they were
\* detected (day ascending, then the order of the six detectors).
C13_EventsSortedStable ==
  (fn = "detectWeatherEvents" /\ ret # Thrown) =>
    \A i, j \in DOMAIN ret :
      i < j => /\ Ge(ret[i].probability, ret[j].probability)
               /\ ret[i].probability = ret[j].probability => DetectedBefore(ret[i], ret[j])

C13_Witness ==
  /\ fn = "detectWeatherEvents"
  /\ ret # Thrown
  /\ Len(ret) >= 4
  /\ \E i \in 1..(Len(ret) - 1) :
       /\ ret[i].probability = ret[i + 1].probability
       /\ ret[i].date < ret[i + 1].date
  /\ \E i \in 1..(Len(ret) - 1) :
       /\ Gt(ret[i].probability, ret[i + 1].probability)
       /\ ret[i].date > ret[i + 1].date


(***************************************************************************)
(* AI text collaborator.  One request to the service ends in one of the    *)
(* replies below.  A response text is kept as what the annotation parsers  *)
(* see of it: whether /\[[\s\S]*\]/ matches and what JSON.parse makes of   *)
(* the match.  The prompts are not modelled; the data they are built from  *)
(* is well formed.                                                         *)
(***************************************************************************)
\* a response text: without brackets, with a bracketed part that is not JSON,
\* with a bracketed part that parses to an array of `items` entries
ResponseTexts ==
  {[text |-> "prose", match |-> "none"],
   [text |-> "broken list", match |-> "invalid"],
   [text |-> "list", match |-> "array", items |-> 2]}

\* the empty string
EmptyText == [text |-> "", match |-> "none"]

\* what the body of a 2xx reply parses to: not JSON at all, null, an object
\* without `response`, an object whose `response` is the empty string, an
\* object whose `response` is a text
ReplyBodies ==
  {[json |-> "malformed"], [json |-> "null"], [json |-> "object"],
   [json |-> "object", response |-> EmptyText]}
  \cup {[json |-> "object", response |-> t] : t \in ResponseTexts}

AIReplies ==
  {[kind |-> "network error"], [kind |-> "http", ok |-> FALSE, status |-> 500]}
  \cup {[kind |-> "http", ok |-> TRUE, body |-> b] : b \in ReplyBodies}

\* dalsiaiGenerateText once fetch has settled with `reply`: a rejected fetch, a
\* non-OK status and a body that is not JSON all end in the catch block
dalsiaiGenerateText(reply) ==
  IF reply.kind = "network error" THEN Null
  ELSE IF ~reply.ok THEN Null
  ELSE IF reply.body.json = "malformed" THEN Null
  ELSE IF reply.body.json = "null" THEN Null
  ELSE reply.body

\* !result || !result.response
NoResponse(result) ==
  result = Null \/ ~Has(result, "response") \/ result.response = EmptyText

\* the tail of the six generate*Analysis functions
analysisOf(result) == IF NoResponse(result) THEN Null ELSE result.response

ParsedListUncaught(text) ==
  IF text.match = "none" THEN <<>>
  ELSE IF text.match = "invalid" THEN Thrown
  ELSE [k \in 1..text.items |-> [annotation |-> k]]

\* JSON.parse of the bracketed part: an array of `items` annotations, or a
\* SyntaxError, which the enclosing catch turns into []
parsedList(text) ==
  IF text.match = "none" THEN <<>>
  ELSE IF text.match = "invalid" THEN <<>>
  ELSE [k \in 1..text.items |-> [annotation |-> k]]

\* the tail of generateChartAnnotations and detectWeatherPhenomena
annotationsOf(result) == IF NoResponse(result) THEN <<>> ELSE parsedList(result.response)

\* the object generateEventBasedForecast returns for the detected events
eventForecastOf(events, result) ==
  [events |-> events,
   aiAnalysis |-> IF result # Null /\ Has(result, "response") /\ result.response # EmptyText
                  THEN result.response
                  ELSE [text |-> "Analysis unavailable", match |-> "none"],
   summary |-> generateEventSummary(events)]


(***************************************************************************)
(* Specification SpecAI: one invocation of an AI-backed function; the      *)
(* service's reply is part of the input.                                   *)
(***************************************************************************)
AnalysisFunctions ==
  {"generatePressureAnalysis", "generateWindAnalysis", "generateTemperatureAnalysis",
   "generateHumidityAnalysis", "generatePrecipitationAnalysis", "generateSynopticAnalysis"}

AnnotationFunctions == {"generateChartAnnotations", "detectWeatherPhenomena"}

AIFunctions == AnalysisFunctions \cup AnnotationFunctions \cup {"generateEventBasedForecast"}

\* the forecasts handed to generateEventBasedForecast: a calm day, and a hot
\* spell followed by a thunderstorm
AIForecasts ==
  {Forecast(<<[tmax |-> 22, tmin |-> 4, psum |-> 0, pprob |-> 10, wind |-> 10,
               gust |-> 20, thunderHours |-> 0]>>),
   Forecast(<<[tmax |-> 34, tmin |-> 20, psum |-> 0, pprob |-> 0, wind |-> 10,
               gust |-> 20, thunderHours |-> 0],
              [tmax |-> 39, tmin |-> 25, psum |-> 0, pprob |-> 0, wind |-> 45,
               gust |-> 20, thunderHours |-> 0],
              [tmax |-> 24, tmin |-> 15, psum |-> 16, pprob |-> 85, wind |-> 10,
               gust |-> 20, thunderHours |-> 4]>>)}

AIInputs ==
  {[call |-> f, weatherData |-> w, reply |-> r] :
     f \in AIFunctions, w \in AIForecasts, r \in AIReplies}

InitAI ==
  /\ input \in AIInputs
  /\ fn = ""
  /\ ret = NoReturn
  /\ WorldAtRest

\* the function under call builds its prompt and awaits dalsiaiGenerateText,
\* which sends its single request and returns the body or null
CallDalsiaiGenerateText ==
  /\ fn = ""
  /\ fn' = "dalsiaiGenerateText"
  /\ requests' = requests + 1
  /\ ret' = dalsiaiGenerateText(input.reply)
  /\ UNCHANGED <<input, clock, storage, iap, hook, banner, alertWorld>>

ReturnAnalysis ==
  /\ fn = "dalsiaiGenerateText"
  /\ input.call \in AnalysisFunctions
  /\ fn' = input.call
  /\ ret' = analysisOf(ret)
  /\ UNCHANGED input
  /\ UNCHANGED world

ReturnAnnotations ==
  /\ fn = "dalsiaiGenerateText"
  /\ input.call \in AnnotationFunctions
  /\ fn' = input.call
  /\ ret' = annotationsOf(ret)
  /\ UNCHANGED input
  /\ UNCHANGED world

ReturnEventForecast ==
  /\ fn = "dalsiaiGenerateText"
  /\ input.call = "generateEventBasedForecast"
  /\ fn' = input.call
  /\ ret' = eventForecastOf(
              detectWeatherEvents(input.weatherData.hourly, input.weatherData.daily), ret)
  /\ UNCHANGED input
  /\ UNCHANGED world

NextAI ==
  \/ CallDalsiaiGenerateText
  \/ ReturnAnalysis
  \/ ReturnAnnotations
  \/ ReturnEventForecast

SpecAI == InitAI /\ [][NextAI]_vars


\* the service gave no usable result: the request failed, the status was not
\* OK, or the body was not JSON, null, or without a (non-empty) response
CollaboratorFailed(reply) ==
  \/ reply.kind = "network error"
  \/ ~reply.ok
  \/ reply.body.json \in {"malformed", "null"}
  \/ ~Has(reply.body, "response")
  \/ reply.body.response = EmptyText

\* the service answered with a text whose bracketed part is not valid JSON
BrokenListReply(reply) ==
  /\ ~CollaboratorFailed(reply)
  /\ reply.body.response.match = "invalid"

\* C14: when the AI text service fails, the generate*Analysis functions return
\* null, generateChartAnnotations and detectWeatherPhenomena return [] (also
\* when the bracketed part of the text is not valid JSON), and
\* generateEventBasedForecast returns the detected events and their summary
\* with a placeholder aiAnalysis; no exception propagates, and the service is
\* called exactly once per invocation.
C14_AIFailureSurfacedAsValue ==
  /\ requests <= 1
  /\ fn \in AnalysisFunctions =>
       /\ requests = 1
       /\ ret # Throw
       /\ CollaboratorFailed(input.reply) => ret = Null
  /\ fn \in AnnotationFunctions =>
       /\ requests = 1
       /\ ret # Thrown
       /\ (CollaboratorFailed(input.reply) \/ BrokenListReply(input.reply)) => ret = <<>>
  /\ fn = "generateEventBasedForecast" =>
       /\ requests = 1
       /\ ret # Throw
       /\ CollaboratorFailed(input.reply) =>
            LET events == detectWeatherEvents(input.weatherData.hourly,
                                              input.weatherData.daily)
            IN  /\ ret.events = events
                /\ ret.summary = generateEventSummary(events)
                /\ ret.aiAnalysis.text = "Analysis unavailable"

C14_Witness ==
  /\ fn = "generateChartAnnotations"
  /\ BrokenListReply(input.reply)
  /\ requests = 1
  /\ ret = <<>>


(***************************************************************************)
(* Historical comparison.  getHistoricalComparison takes the month from    *)
(* the system clock (new Date().getMonth()), not from its arguments.       *)
(***************************************************************************)
\* the table of getSeasonalAverage, January first; `averages[month] || 15`
\* never takes the default for a month 0..11
SeasonalAverages == <<5, 6, 9, 12, 16, 19, 21, 21, 18, 14, 9, 6>>

getSeasonalAverage(month) ==
  IF month \in 0..11 /\ SeasonalAverages[month + 1] # 0
  THEN N(SeasonalAverages[month + 1])
  ELSE N(15)

getHistoricalComparison(current, daily) ==
  LET avgTemp == Div(N(SumInt(daily.temperature_2m_max)), N(Len(daily.temperature_2m_max)))
      seasonalAverage == getSeasonalAverage(clock)
      difference == Sub(avgTemp, seasonalAverage)
      extreme == Gt(MathAbs(difference), N(10))
  IN  [vsSeasonalAverage |->
         [difference |-> difference,
          percentage |-> Mul(Div(difference, seasonalAverage), N(100)),
          description |-> <<ToFixed(MathAbs(difference), 1),
                            IF Gt(difference, Zero) THEN "above seasonal average"
                            ELSE "below seasonal average">>],
       anomaly |->
         IF Gt(MathAbs(difference), N(5))
         THEN [severity |-> IF extreme THEN "extreme" ELSE "significant",
               description |-> IF extreme THEN "Extreme temperature anomaly detected"
                               ELSE "Significant temperature deviation from normal"]
         ELSE Null]

(***************************************************************************)
(* Specification SpecHistory: getHistoricalComparison applied again and    *)
(* again to one snapshot while the calendar moves on.                      *)
(***************************************************************************)
HistoryInputs == {Snapshot(g, 3, d) : g \in Regimes, d \in 1..MaxDays}

InitHistory ==
  /\ input \in HistoryInputs
  /\ fn = ""
  /\ ret = NoReturn
  /\ clock \in 0..11
  /\ requests = 0
  /\ storage = EmptyStorage
  /\ iap = NothingBought
  /\ hook = HookUnmounted
  /\ banner = BannerUnmounted
  /\ AlertWorldAtRest

CallGetHistoricalComparison ==
  /\ fn' = "getHistoricalComparison"
  /\ ret' = getHistoricalComparison(input.current, input.daily)
  /\ UNCHANGED input
  /\ UNCHANGED world

\* a month ends
MonthPasses ==
  /\ clock' = (clock + 1) % 12
  /\ UNCHANGED <<input, fn, ret, requests, storage, iap, hook, banner, alertWorld>>

NextHistory == CallGetHistoricalComparison \/ MonthPasses

SpecHistory == InitHistory /\ [][NextHistory]_vars

\* C15: a calculator fed the same snapshot a second time returns the output
\* it returned the first time, because it reads nothing but its arguments.
C15_SameSnapshotSameOutput ==
  [][(fn = "getHistoricalComparison" /\ fn' = "getHistoricalComparison" /\ input' = input)
       => ret' = ret]_vars



(***************************************************************************)
(* Specification SpecFrame: the five calculators applied to snapshots the  *)
(* caller keeps a reference to.  A snapshot with a `current` group goes to *)
(* the four calculators that take the whole snapshot, a forecast of hourly *)
(* and daily groups goes to detectWeatherEvents.                           *)
(***************************************************************************)
FrameInputs == SizedSnapshots \cup FetchedSnapshots \cup EventInputs

FrameCalculators ==
  {"calculateComfortIndex", "analyzeWeatherTrends", "analyzeWeatherPatterns",
   "forecastWeatherImpacts", "detectWeatherEvents"}

InitFrame ==
  /\ input \in FrameInputs
  /\ fn = ""
  /\ ret = NoReturn
  /\ WorldAtRest

NextFrame ==
  \/ Has(input, "current") /\ NextEntry
  \/ ~Has(input, "current") /\ CallDetectWeatherEvents

SpecFrame == InitFrame /\ [][NextFrame]_vars

calculatorFrame == <<input, fn, ret, clock, requests, alertWorld>>

\* premiumStatus === 'true'
IsTrueItem(premiumStatus) == premiumStatus = "true"

\* the position of checkPremiumStatus once getItem delivered `item`
resolvedWith(item) == IF IsTrueItem(item) THEN "resolvedTrue" ELSE "resolvedNull"

\* useState(false) and the effect that runs initializeIAP and checkPremiumStatus
OpenSettings ==
  /\ ~hook.mounted
  /\ hook' = [mounted |-> TRUE, isPremium |-> FALSE, loading |-> FALSE,
              connection |-> "connecting", check |-> "awaiting",
              purchase |-> "idle", restore |-> "idle"]
  /\ UNCHANGED <<calculatorFrame, storage, iap, banner>>

\* initConnection and getProducts resolved: the two listeners are registered
ConnectionInitialized ==
  /\ hook.mounted /\ hook.connection = "connecting"
  /\ hook' = [hook EXCEPT !.connection = "listening"]
  /\ UNCHANGED <<calculatorFrame, storage, iap, banner>>

\* initConnection or getProducts rejected: the catch logs, no listener
ConnectionFails ==
  /\ hook.mounted /\ hook.connection = "connecting"
  /\ hook' = [hook EXCEPT !.connection = "failed"]
  /\ UNCHANGED <<calculatorFrame, storage, iap, banner>>

\* AsyncStorage serves the getItem of the hook's checkPremiumStatus
HookGetItem ==
  /\ hook.mounted /\ hook.check = "awaiting"
  /\ hook' = [hook EXCEPT !.check = resolvedWith(storage.isPremium)]
  /\ UNCHANGED <<calculatorFrame, storage, iap, banner>>

\* setIsPremium(premiumStatus === 'true')
HookSetIsPremium ==
  /\ hook.mounted /\ hook.check \in {"resolvedTrue", "resolvedNull"}
  /\ hook' = [hook EXCEPT !.isPremium = (hook.check = "resolvedTrue"), !.check = "done"]
  /\ UNCHANGED <<calculatorFrame, storage, iap, banner>>

\* the user buys: setLoading(true), and requestPurchase hands the request to
\* the store
PurchaseSubscription ==
  /\ hook.mounted /\ hook.connection = "listening"
  /\ ~hook.loading
  /\ hook.purchase = "idle"
  /\ iap.event = "none"
  /\ iap' = [iap EXCEPT !.event = "requested"]
  /\ hook' = [hook EXCEPT !.loading = TRUE]
  /\ UNCHANGED <<calculatorFrame, storage, banner>>

\* the store completes the purchase and calls the purchase-updated listener;
\* a purchase that is still pending carries no transactionReceipt, and the
\* listener does nothing with it
StoreCompletesPurchase ==
  /\ hook.mounted /\ hook.connection = "listening"
  /\ iap.event = "requested"
  /\ \E receipt \in BOOLEAN :
       /\ iap' = [iap EXCEPT !.event = "none", !.owned = (iap.owned \/ receipt)]
       /\ hook' = [hook EXCEPT !.purchase = IF receipt THEN "finishing" ELSE "idle"]
  /\ UNCHANGED <<calculatorFrame, storage, banner>>

\* the store reports an error or the user cancels: requestPurchase rejects
\* and the error listener runs, and each of the two calls setLoading(false)
StoreRejectsPurchase ==
  /\ hook.mounted /\ hook.connection = "listening"
  /\ iap.event = "requested"
  /\ iap' = [iap EXCEPT !.event = "none"]
  /\ hook' = [hook EXCEPT !.loading = FALSE]
  /\ UNCHANGED <<calculatorFrame, storage, banner>>

\* await finishTransaction({ purchase, isConsumable: false }) resolves
FinishTransactionResolves ==
  /\ hook.purchase = "finishing"
  /\ iap' = [iap EXCEPT !.finished = TRUE]
  /\ hook' = [hook EXCEPT !.purchase = "storingPremium"]
  /\ UNCHANGED <<calculatorFrame, storage, banner>>

\* finishTransaction rejects: the catch of the listener logs
FinishTransactionRejects ==
  /\ hook.purchase = "finishing"
  /\ hook' = [hook EXCEPT !.purchase = "idle"]
  /\ UNCHANGED <<calculatorFrame, storage, iap, banner>>

\* await AsyncStorage.setItem('isPremium', 'true') of the listener
ListenerStoresPremium ==
  /\ hook.purchase = "storingPremium"
  /\ storage' = [storage EXCEPT !.isPremium = "true"]
  /\ hook' = [hook EXCEPT !.purchase = "storingReceipt"]
  /\ UNCHANGED <<calculatorFrame, iap, banner>>

\* await AsyncStorage.setItem('purchaseReceipt', receipt); setIsPremium(true)
ListenerStoresReceipt ==
  /\ hook.purchase = "storingReceipt"
  /\ storage' = [storage EXCEPT !.purchaseReceipt = "receipt"]
  /\ hook' = [hook EXCEPT !.purchase = "idle", !.isPremium = TRUE]
  /\ UNCHANGED <<calculatorFrame, iap, banner>>

\* the user restores: setLoading(true), and getAvailablePurchases is sent to
\* the store
RestorePurchases ==
  /\ hook.mounted /\ hook.restore = "idle"
  /\ ~hook.loading
  /\ hook' = [hook EXCEPT !.restore = "asking", !.loading = TRUE]
  /\ UNCHANGED <<calculatorFrame, storage, iap, banner>>

\* getAvailablePurchases resolves with the purchases of the account, or
\* rejects; purchases.find(...) finds the ad-free product when it is owned
RestoreResolves ==
  /\ hook.restore = "asking"
  /\ \E resolved \in BOOLEAN :
       IF resolved /\ iap.owned
       THEN /\ iap' = [iap EXCEPT !.restored = TRUE]
            /\ hook' = [hook EXCEPT !.restore = "storingPremium"]
       ELSE /\ hook' = [hook EXCEPT !.restore = "idle", !.loading = FALSE]
            /\ UNCHANGED iap
  /\ UNCHANGED <<calculatorFrame, storage, banner>>

\* await AsyncStorage.setItem('isPremium', 'true') of restorePurchases
RestoreStoresPremium ==
  /\ hook.restore = "storingPremium"
  /\ storage' = [storage EXCEPT !.isPremium = "true"]
  /\ hook' = [hook EXCEPT !.restore = "storingReceipt"]
  /\ UNCHANGED <<calculatorFrame, iap, banner>>

\* await AsyncStorage.setItem('purchaseReceipt', ...); setIsPremium(true);
\* setLoading(false)
RestoreStoresReceipt ==
  /\ hook.restore = "storingReceipt"
  /\ storage' = [storage EXCEPT !.purchaseReceipt = "receipt"]
  /\ hook' = [hook EXCEPT !.restore = "idle", !.isPremium = TRUE, !.loading = FALSE]
  /\ UNCHANGED <<calculatorFrame, iap, banner>>

\* App renders <AdBanner /> once adMobInitialized is true: useState(false)
\* and the mount effect, which calls checkPremiumStatus
MountAdBanner ==
  /\ ~banner.mounted
  /\ banner' = [mounted |-> TRUE, isPremium |-> FALSE, check |-> "awaiting"]
  /\ UNCHANGED <<calculatorFrame, storage, iap, hook>>

\* AsyncStorage serves the getItem of the banner's checkPremiumStatus
BannerGetItem ==
  /\ banner.mounted /\ banner.check = "awaiting"
  /\ banner' = [banner EXCEPT !.check = resolvedWith(storage.isPremium)]
  /\ UNCHANGED <<calculatorFrame, storage, iap, hook>>

\* setIsPremium(premiumStatus === 'true') of the banner
BannerSetIsPremium ==
  /\ banner.mounted /\ banner.check \in {"resolvedTrue", "resolvedNull"}
  /\ banner' = [banner EXCEPT !.isPremium = (banner.check = "resolvedTrue"),
                              !.check = "done"]
  /\ UNCHANGED <<calculatorFrame, storage, iap, hook>>

\* a restart that wiped AsyncStorage
RestartClearingStorage ==
  /\ hook.mounted \/ banner.mounted
  /\ hook' = HookUnmounted
  /\ banner' = BannerUnmounted
  /\ iap' = [iap EXCEPT !.event = "none"]
  /\ storage' = EmptyStorage
  /\ UNCHANGED calculatorFrame

\* the app is closed and started again: every component state and every
\* pending async function is gone, AsyncStorage and the store's records stay
AppRestart ==
  /\ hook.mounted \/ banner.mounted
  /\ hook' = HookUnmounted
  /\ banner' = BannerUnmounted
  /\ iap' = [iap EXCEPT !.event = "none"]
  /\ UNCHANGED <<calculatorFrame, storage>>

\* if (isPremium) return null; otherwise the BannerAd is rendered
BannerRendersAd == banner.mounted /\ ~banner.isPremium

(***************************************************************************)
(* Specification SpecPremium: a fresh install on an account that may own   *)
(* the ad-free product already; the user opens the settings, buys,         *)
(* restores and restarts in any order.  SpecPremiumFair adds that every    *)
(* pending promise is settled and every continuation runs.                 *)
(***************************************************************************)
InitPremium ==
  /\ input = Null
  /\ fn = ""
  /\ ret = NoReturn
  /\ clock = 0
  /\ requests = 0
  /\ storage = EmptyStorage
  /\ iap \in {NothingBought, [NothingBought EXCEPT !.owned = TRUE]}
  /\ hook = HookUnmounted
  /\ banner = BannerUnmounted
  /\ AlertWorldAtRest

\* the steps the JavaScript runtime, AsyncStorage and the store take
PremiumProgress ==
  \/ ConnectionInitialized
  \/ ConnectionFails
  \/ HookGetItem
  \/ HookSetIsPremium
  \/ StoreCompletesPurchase
  \/ StoreRejectsPurchase
  \/ FinishTransactionResolves
  \/ FinishTransactionRejects
  \/ ListenerStoresPremium
  \/ ListenerStoresReceipt
  \/ RestoreResolves
  \/ RestoreStoresPremium
  \/ RestoreStoresReceipt
  \/ BannerGetItem
  \/ BannerSetIsPremium

\* the steps the user takes
UserActs ==
  \/ OpenSettings
  \/ PurchaseSubscription
  \/ RestorePurchases
  \/ MountAdBanner
  \/ AppRestart

NextPremium == PremiumProgress \/ UserActs

SpecPremium == InitPremium /\ [][NextPremium]_vars

SpecPremiumFair ==
  /\ SpecPremium
  /\ WF_vars(ConnectionInitialized \/ ConnectionFails)
  /\ WF_vars(HookGetItem)
  /\ WF_vars(HookSetIsPremium)
  /\ WF_vars(StoreCompletesPurchase \/ StoreRejectsPurchase)
  /\ WF_vars(FinishTransactionResolves \/ FinishTransactionRejects)
  /\ WF_vars(ListenerStoresPremium)
  /\ WF_vars(ListenerStoresReceipt)
  /\ WF_vars(RestoreResolves)
  /\ WF_vars(RestoreStoresPremium)
  /\ WF_vars(RestoreStoresReceipt)
  /\ WF_vars(BannerGetItem)
  /\ WF_vars(BannerSetIsPremium)

\* the listener finished the transaction and stored isPremium = 'true'
PurchaseStored == iap.finished /\ storage.isPremium = "true"

\* C17: ads disappear after a successful purchase.  Once the listener has
\* finished the transaction and stored isPremium = 'true', a mounted AdBanner
\* that renders the ad eventually stops rendering it, without the app being
\* restarted (a restart unmounts the banner and is no part of the run that
\* refutes this); and an AdBanner that has read isPremium = 'true' never
\* renders the ad again while it is mounted.
C17_AdsDisappearAfterPurchase ==
  /\ (PurchaseStored /\ BannerRendersAd) ~> ~BannerRendersAd
  /\ [][(banner.mounted /\ banner.isPremium /\ banner'.mounted) => banner'.isPremium]_vars



MaxVolatilityHours == 49

MaxVolatilitySteps == 6

\* the height of the peak above the level of the other hours
PeakHeights == {0, 15, 16, 30}

\* the hour (counted from 1) that carries the peak: the first, the last of
\* the 48-hour window, and one past the window
PeakHours == {1, MaxVolatilityHours - 1, MaxVolatilityHours}

HourlyWithPeak(height, hour) ==
  [temperature_2m |->
     [k \in 1..MaxVolatilityHours |-> IF k = hour THEN 12 + height ELSE 12]]

\* daily maxima of MaxVolatilitySteps + 1 days: `rises` steps up, then `falls`
\* steps down, then level
DailyWithSteps(rises, falls) ==
  [temperature_2m_max |->
     [k \in 1..(MaxVolatilitySteps + 1) |->
        IF k - 1 <= rises THEN 20 + (k - 1)
        ELSE IF k - 1 <= rises + falls THEN 20 + rises - (k - 1 - rises)
        ELSE 20 + rises - falls]]

VolatilityInputs ==
  {[hourly |-> HourlyWithPeak(height, hour), daily |-> DailyWithSteps(rises, falls)] :
     height \in PeakHeights, hour \in PeakHours,
     rises \in 0..MaxVolatilitySteps, falls \in 0..MaxVolatilitySteps}

InitVolatility ==
  /\ input \in VolatilityInputs
  /\ fn = ""
  /\ ret = NoReturn
  /\ WorldAtRest

CallDetectTemperatureTrend ==
  /\ fn' = "detectTemperatureTrend"
  /\ ret' = detectTemperatureTrend(input.hourly, input.daily)
  /\ UNCHANGED input
  /\ UNCHANGED world

NextVolatility == CallDetectTemperatureTrend

SpecVolatility == InitVolatility /\ [][NextVolatility]_vars

\* max - min of the first 48 hourly temperatures
Swing48(hourly) ==
  Sub(MaxOf(Slice(hourly.temperature_2m, 0, 48)), MinOf(Slice(hourly.temperature_2m, 0, 48)))

\* C19: whenever the swing of the first 48 hourly temperatures exceeds 15,
\* detectTemperatureTrend emits the 'High Temperature Volatility' anomaly,
\* whether or not the daily maxima show a warming or a cooling trend.
C19_VolatilityRegardlessOfTrend ==
  (fn = "detectTemperatureTrend" /\ Gt(Swing48(input.hourly), N(15)))
    => (ret # Null /\ ret.title = "High Temperature Volatility")



(***************************************************************************)
(* Specification SpecPrecipitation: analyzeWeatherTrends on snapshots of   *)
(* one week and of MaxPrecipDays days, with rain on the first and the last *)
(* day of the week and on the first and the last day after it.             *)
(***************************************************************************)
MaxPrecipDays == 14

WeekAmounts == {0, 1, 5, 6, 10, 11}

LaterAmounts == {0, 1, 11}

\* precipitation_sum of `days` days: a on day 0, b on day 6, c on day 7 and d
\* on the last day, nothing on the others
RainOn(days, a, b, c, d) ==
  [k \in 1..days |->
     IF k = 1 THEN a
     ELSE IF k = 7 THEN b
     ELSE IF k = 8 THEN c
     ELSE IF k = days THEN d
     ELSE 0]

\* the calm regime of the snapshots: no other insight depends on the rain
CalmRegime == CHOOSE g \in Regimes : g.temp = 20

PrecipitationInputs ==
  {[Snapshot(CalmRegime, 3, 7) EXCEPT !.daily.precipitation_sum = RainOn(7, a, b, 0, 0)] :
     a \in WeekAmounts, b \in WeekAmounts}
  \cup
  {[Snapshot(CalmRegime, 3, MaxPrecipDays)
      EXCEPT !.daily.precipitation_sum = RainOn(MaxPrecipDays, a, b, c, d)] :
     a \in WeekAmounts, b \in WeekAmounts, c \in LaterAmounts, d \in LaterAmounts}

InitPrecipitation ==
  /\ input \in PrecipitationInputs
  /\ fn = ""
  /\ ret = NoReturn
  /\ WorldAtRest

NextPrecipitation == CallAnalyzeWeatherTrends

SpecPrecipitation == InitPrecipitation /\ [][NextPrecipitation]_vars

\* the precipitation total of days 0..6
WeekTotal(daily) == SumInt(Slice(daily.precipitation_sum, 0, 7))

\* C20: the precipitation insight of analyzeWeatherTrends follows the total of
\* the 7-day window, days 0..6: 'Wet Week Ahead' exactly when it is above 10,
\* 'Dry Week Expected' exactly when it is below 1, never both, and neither
\* when it is in [1, 10]; also when the daily arrays carry 14 days.
C20_PrecipitationInsightBySevenDayTotal ==
  (fn = "analyzeWeatherTrends" /\ ret # Throw) =>
    /\ HasTitle(ret.insights, "Wet Week Ahead") <=> WeekTotal(input.daily) > 10
    /\ HasTitle(ret.insights, "Dry Week Expected") <=> WeekTotal(input.daily) < 1
    /\ ~(HasTitle(ret.insights, "Wet Week Ahead")
         /\ HasTitle(ret.insights, "Dry Week Expected"))



(***************************************************************************)
(* Specification SpecBusyDays: detectWeatherEvents on forecasts whose days *)
(* cross as many event thresholds at once as the values allow.             *)
(***************************************************************************)
MaxBusyDays == 3

\* a mild day, a hot stormy day after a cool night, a frozen stormy day and a
\* hot quiet day
BusyDayKinds ==
  {[tmax |-> 22, tmin |-> 12, psum |-> 0, pprob |-> 10, wind |-> 10, gust |-> 20,
    thunderHours |-> 0],
   [tmax |-> 39, tmin |-> 2, psum |-> 31, pprob |-> 85, wind |-> 45, gust |-> 85,
    thunderHours |-> 4],
   [tmax |-> 8, tmin |-> -2, psum |-> 31, pprob |-> 85, wind |-> 45, gust |-> 85,
    thunderHours |-> 4],
   [tmax |-> 34, tmin |-> 20, psum |-> 0, pprob |-> 0, wind |-> 10, gust |-> 20,
    thunderHours |-> 0]}

BusyWeeks == UNION {[1..n -> BusyDayKinds] : n \in 1..MaxBusyDays}

BusyInputs == {Forecast(week) : week \in BusyWeeks}

InitBusyDays ==
  /\ input \in BusyInputs
  /\ fn = ""
  /\ ret = NoReturn
  /\ WorldAtRest

NextBusyDays == CallDetectWeatherEvents

SpecBusyDays == InitBusyDays /\ [][NextBusyDays]_vars

\* the positions in `events` of the events of the day with timestamp `date`
EventsOfDay(events, date) == {i \in DOMAIN events : events[i].date = date}

DayHasType(events, date, types) ==
  \E i \in EventsOfDay(events, date) : events[i].type \in types

\* C21: detectWeatherEvents emits between 0 and 5 events for every forecast
\* day: a heatwave and a cold snap never fire for the same day, so the six
\* detectors never fire all at once, and day 0 never emits a warm or cold
\* front.
C21_AtMostFiveEventsPerDay ==
  (fn = "detectWeatherEvents" /\ ret # Thrown) =>
    /\ \A d \in DOMAIN input.daily.time :
         /\ Cardinality(EventsOfDay(ret, input.daily.time[d])) <= 5
         /\ ~(DayHasType(ret, input.daily.time[d], {"heatwave"})
              /\ DayHasType(ret, input.daily.time[d], {"cold_snap"}))
    /\ ~DayHasType(ret, input.daily.time[1], {"warm_front", "cold_front"})
    /\ \A i \in DOMAIN ret : \E d \in DOMAIN input.daily.time : ret[i].date = input.daily.time[d]

\* one day with five events, a front among them, and a day 0 whose maximum is
\* more than 10 away from the next day's
C21_Witness ==
  /\ fn = "detectWeatherEvents"
  /\ ret # Thrown
  /\ \E d \in DOMAIN input.daily.time :
       /\ Cardinality(EventsOfDay(ret, input.daily.time[d])) = 5
       /\ DayHasType(ret, input.daily.time[d], {"warm_front", "cold_front"})
  /\ \E d \in DOMAIN input.daily.time :
       /\ Cardinality(EventsOfDay(ret, input.daily.time[d])) = 5
       /\ DayHasType(ret, input.daily.time[d], {"heatwave"})
  /\ Cardinality(EventsOfDay(ret, input.daily.time[1])) >= 4


(***************************************************************************)
(* Specification SpecWindowScores: findOptimalWindows on hourly comfort    *)
(* lists, for the score of a window.  Every list of at most MaxGapLen      *)
(* hours over a score below 70 and two scores of 70 or more, and every     *)
(* longer list of at most MaxScoredHours hours of score 70 of which at     *)
(* most two are raised to 73: one long window with a mean near 70.5.       *)
(***************************************************************************)
MaxGapLen == 6

MaxScoredHours == 12

GapScores == {65, 70, 73}

LongRunScores ==
  {[k \in 1..n |-> IF k \in raised THEN 73 ELSE 70] :
     n \in (MaxGapLen + 1)..MaxScoredHours,
     raised \in {s \in SUBSET (1..MaxScoredHours) : Cardinality(s) <= 2}}

ScoredLists == UNION {[1..k -> GapScores] : k \in 0..MaxGapLen} \cup LongRunScores

InitWindowScores ==
  /\ input \in {HourlyComfortList(h0, sc) : h0 \in {6}, sc \in ScoredLists}
  /\ fn = ""
  /\ ret = NoReturn
  /\ WorldAtRest

NextWindowScores == CallFindOptimalWindows

SpecWindowScores == InitWindowScores /\ [][NextWindowScores]_vars

\* the maximal runs i..j of two or more hours that all score 70 or more
MaximalRuns(hourlyComfort) ==
  {run \in (1..Len(hourlyComfort)) \X (1..Len(hourlyComfort)) :
     /\ run[1] < run[2]
     /\ \A i \in run[1]..run[2] : Ge(hourlyComfort[i].score, N(70))
     /\ run[1] > 1 => ~Ge(hourlyComfort[run[1] - 1].score, N(70))
     /\ run[2] < Len(hourlyComfort) => ~Ge(hourlyComfort[run[2] + 1].score, N(70))}

\* the mean of the scores of the hours i..j, as a rational
RunMean(hourlyComfort, run) ==
  Mean([k \in 1..(run[2] - run[1] + 1) |-> hourlyComfort[run[1] + k - 1].score.n])

\* C22: the returned windows are exactly the maximal runs of two or more
\* consecutive hours of score 70 or more, in the order of the list and cut to
\* the first three (a run open at the end of the list included); the duration
\* of a window is the length of its run and its score is the rounded mean of
\* the scores of its run.
C22_WindowsAreMaximalRuns ==
  fn = "findOptimalWindows" =>
    LET runs == MaximalRuns(input)
    IN  /\ Len(ret) = (IF Cardinality(runs) < 3 THEN Cardinality(runs) ELSE 3)
        /\ \A k \in 1..Len(ret) :
             \E run \in runs :
               /\ Cardinality({r \in runs : r[1] < run[1]}) = k - 1
               /\ ret[k].start = input[run[1]].time
               /\ ret[k].end = input[run[2]].time
               /\ ret[k].duration = run[2] - run[1] + 1
               /\ ret[k].score = MathRound(RunMean(input, run))

\* the same without the score: the runs, their order, the cut and the
\* durations
WindowsCoverMaximalRuns ==
  fn = "findOptimalWindows" =>
    LET runs == MaximalRuns(input)
    IN  /\ Len(ret) = (IF Cardinality(runs) < 3 THEN Cardinality(runs) ELSE 3)
        /\ \A k \in 1..Len(ret) :
             \E run \in runs :
               /\ Cardinality({r \in runs : r[1] < run[1]}) = k - 1
               /\ ret[k].start = input[run[1]].time
               /\ ret[k].end = input[run[2]].time
               /\ ret[k].duration = run[2] - run[1] + 1


(***************************************************************************)
(* Specification SpecHumidity: calculateHumidityScore on the humidities    *)
(* -MaxHumidityMargin .. 100 + MaxHumidityMargin in halves of a percent,   *)
(* and on NaN.                                                             *)
(***************************************************************************)
MaxHumidityMargin == 5

Humidities ==
  {R(k, 2) : k \in (-2 * MaxHumidityMargin)..(2 * (100 + MaxHumidityMargin))}
  \cup {NaN}

InitHumidity ==
  /\ input \in Humidities
  /\ fn = ""
  /\ ret = NoReturn
  /\ WorldAtRest

CallCalculateHumidityScore ==
  /\ fn' = "calculateHumidityScore"
  /\ ret' = calculateHumidityScore(input)
  /\ UNCHANGED input
  /\ UNCHANGED world

NextHumidity == CallCalculateHumidityScore

SpecHumidity == InitHumidity /\ [][NextHumidity]_vars

\* lo <= humidity <= hi
HumidityWithin(humidity, lo, hi) == Le(N(lo), humidity) /\ Le(humidity, N(hi))

\* C23: the humidity score is 100 on [40, 60] and nowhere else; outside it
\* steps down by bands that are symmetric about 50: 80 on the rest of
\* [30, 70], 60 on the rest of [20, 80], 40 on the rest of [10, 90], and 20
\* otherwise.
C23_HumidityScoreBands ==
  fn = "calculateHumidityScore" =>
    /\ ret = 100 <=> HumidityWithin(input, 40, 60)
    /\ ret = 80 <=> HumidityWithin(input, 30, 70) /\ ~HumidityWithin(input, 40, 60)
    /\ ret = 60 <=> HumidityWithin(input, 20, 80) /\ ~HumidityWithin(input, 30, 70)
    /\ ret = 40 <=> HumidityWithin(input, 10, 90) /\ ~HumidityWithin(input, 20, 80)
    /\ ret = 20 <=> ~HumidityWithin(input, 10, 90)
    /\ ret = calculateHumidityScore(Sub(N(100), input))

\* an end of the band of 100 has been scored
C23_Witness ==
  /\ fn = "calculateHumidityScore"
  /\ input \in {N(40), N(60)}
  /\ ret = 100


(***************************************************************************)
(* The colour classifiers of weatherColorCoding.js.  A band is the object  *)
(* a classifier returns.                                                   *)
(***************************************************************************)
Band(color, label, severity) == [color |-> color, label |-> label, severity |-> severity]

getTemperatureColor(temp) ==
  IF Ge(temp, N(40)) THEN Band("#DC2626", "Extreme Heat", "critical")
  ELSE IF Ge(temp, N(35)) THEN Band("#EA580C", "Very Hot", "high")
  ELSE IF Ge(temp, N(30)) THEN Band("#F59E0B", "Hot", "moderate")
  ELSE IF Ge(temp, N(25)) THEN Band("#10B981", "Warm", "low")
  ELSE IF Ge(temp, N(15)) THEN Band("#06B6D4", "Comfortable", "low")
  ELSE IF Ge(temp, N(10)) THEN Band("#3B82F6", "Cool", "low")
  ELSE IF Ge(temp, N(0)) THEN Band("#6366F1", "Cold", "moderate")
  ELSE Band("#A5F3FC", "Freezing", "high")

getHumidityColor(humidity) ==
  IF Ge(humidity, N(85)) THEN Band("#DC2626", "Very Humid", "high")
  ELSE IF Ge(humidity, N(70)) THEN Band("#F59E0B", "Humid", "moderate")
  ELSE IF Ge(humidity, N(30)) THEN Band("#10B981", "Comfortable", "low")
  ELSE IF Ge(humidity, N(20)) THEN Band("#F59E0B", "Dry", "moderate")
  ELSE Band("#EA580C", "Very Dry", "high")

getWindSpeedColor(windSpeed) ==
  IF Ge(windSpeed, N(75)) THEN Band("#7C2D12", "Dangerous", "critical")
  ELSE IF Ge(windSpeed, N(60)) THEN Band("#DC2626", "Very Strong", "high")
  ELSE IF Ge(windSpeed, N(40)) THEN Band("#EA580C", "Strong", "moderate")
  ELSE IF Ge(windSpeed, N(20)) THEN Band("#F59E0B", "Windy", "low")
  ELSE IF Ge(windSpeed, N(10)) THEN Band("#10B981", "Breezy", "low")
  ELSE Band("#06B6D4", "Calm", "low")

getUVIndexColor(uvIndex) ==
  IF Ge(uvIndex, N(11)) THEN Band("#7C2D12", "Extreme", "critical")
  ELSE IF Ge(uvIndex, N(8)) THEN Band("#DC2626", "Very High", "high")
  ELSE IF Ge(uvIndex, N(6)) THEN Band("#EA580C", "High", "moderate")
  ELSE IF Ge(uvIndex, N(3)) THEN Band("#F59E0B", "Moderate", "low")
  ELSE Band("#10B981", "Low", "low")

getPrecipitationColor(precipProb) ==
  IF Ge(precipProb, N(80)) THEN Band("#DC2626", "Very Likely", "high")
  ELSE IF Ge(precipProb, N(60)) THEN Band("#EA580C", "Likely", "moderate")
  ELSE IF Ge(precipProb, N(40)) THEN Band("#F59E0B", "Possible", "low")
  ELSE IF Ge(precipProb, N(20)) THEN Band("#10B981", "Unlikely", "low")
  ELSE Band("#06B6D4", "Very Unlikely", "low")

getVisibilityColor(visibility) ==
  IF Lt(visibility, N(1)) THEN Band("#DC2626", "Very Poor", "high")
  ELSE IF Lt(visibility, N(4)) THEN Band("#EA580C", "Poor", "moderate")
  ELSE IF Lt(visibility, N(10)) THEN Band("#F59E0B", "Moderate", "low")
  ELSE Band("#10B981", "Good", "low")

\* the pressure classifier testing 1020 before 1030
PressureColorHighFirst(pressure) ==
  IF Lt(pressure, N(980)) THEN Band("#DC2626", "Very Low", "high")
  ELSE IF Lt(pressure, N(1000)) THEN Band("#EA580C", "Low", "moderate")
  ELSE IF Ge(pressure, N(1020)) THEN Band("#06B6D4", "High", "low")
  ELSE IF Ge(pressure, N(1030)) THEN Band("#3B82F6", "Very High", "moderate")
  ELSE Band("#10B981", "Normal", "low")

getPressureColor(pressure) ==
  IF Lt(pressure, N(980)) THEN Band("#DC2626", "Very Low", "high")
  ELSE IF Lt(pressure, N(1000)) THEN Band("#EA580C", "Low", "moderate")
  ELSE IF Ge(pressure, N(1030)) THEN Band("#3B82F6", "Very High", "moderate")
  ELSE IF Ge(pressure, N(1020)) THEN Band("#06B6D4", "High", "low")
  ELSE Band("#10B981", "Normal", "low")

getCloudCoverColor(cloudCover) ==
  IF Ge(cloudCover, N(90)) THEN Band("#64748B", "Overcast", "low")
  ELSE IF Ge(cloudCover, N(70)) THEN Band("#94A3B8", "Mostly Cloudy", "low")
  ELSE IF Ge(cloudCover, N(40)) THEN Band("#CBD5E1", "Partly Cloudy", "low")
  ELSE IF Ge(cloudCover, N(10)) THEN Band("#F59E0B", "Mostly Clear", "low")
  ELSE Band("#FBBF24", "Clear", "low")

\* the switch of getColorWithBadge
getColorWithBadge(value, type) ==
  CASE type = "temperature" -> getTemperatureColor(value)
    [] type = "humidity" -> getHumidityColor(value)
    [] type = "wind" -> getWindSpeedColor(value)
    [] type = "uv" -> getUVIndexColor(value)
    [] type = "precipitation" -> getPrecipitationColor(value)
    [] type = "visibility" -> getVisibilityColor(value)
    [] type = "pressure" -> getPressureColor(value)
    [] type = "cloudCover" -> getCloudCoverColor(value)
    [] OTHER -> Band("#10B981", "Normal", "low")

(***************************************************************************)
(* Specification SpecColors: the classifiers on a value and a type.  The   *)
(* values are the whole numbers -MaxColorMargin .. 100 + MaxColorMargin,   *)
(* the halves between the small ones, the pressures around the pressure    *)
(* thresholds, and NaN; the types are the eight metrics and two others.    *)
(***************************************************************************)
MaxColorMargin == 3

ColorValues ==
  {N(k) : k \in (-MaxColorMargin)..(100 + MaxColorMargin)}
  \cup {R(2 * k + 1, 2) : k \in 0..12}
  \cup {N(k) : k \in {979, 980, 999, 1000, 1013, 1019, 1020, 1029, 1030, 1031}}
  \cup {R(1999, 2), R(2059, 2), NaN}

MetricTypes ==
  {"temperature", "humidity", "wind", "uv", "precipitation", "visibility",
   "pressure", "cloudCover"}

ColorTypes == MetricTypes \cup {"dewPoint", ""}

InitColors ==
  /\ input \in [value : ColorValues, type : ColorTypes]
  /\ fn = ""
  /\ ret = NoReturn
  /\ WorldAtRest

CallGetTemperatureColor ==
  /\ fn' = "getTemperatureColor"
  /\ ret' = getTemperatureColor(input.value)
  /\ UNCHANGED input
  /\ UNCHANGED world

CallGetHumidityColor ==
  /\ fn' = "getHumidityColor"
  /\ ret' = getHumidityColor(input.value)
  /\ UNCHANGED input
  /\ UNCHANGED world

CallGetWindSpeedColor ==
  /\ fn' = "getWindSpeedColor"
  /\ ret' = getWindSpeedColor(input.value)
  /\ UNCHANGED input
  /\ UNCHANGED world

CallGetUVIndexColor ==
  /\ fn' = "getUVIndexColor"
  /\ ret' = getUVIndexColor(input.value)
  /\ UNCHANGED input
  /\ UNCHANGED world

CallGetPrecipitationColor ==
  /\ fn' = "getPrecipitationColor"
  /\ ret' = getPrecipitationColor(input.value)
  /\ UNCHANGED input
  /\ UNCHANGED world

CallGetVisibilityColor ==
  /\ fn' = "getVisibilityColor"
  /\ ret' = getVisibilityColor(input.value)
  /\ UNCHANGED input
  /\ UNCHANGED world

CallGetPressureColor ==
  /\ fn' = "getPressureColor"
  /\ ret' = getPressureColor(input.value)
  /\ UNCHANGED input
  /\ UNCHANGED world

CallGetCloudCoverColor ==
  /\ fn' = "getCloudCoverColor"
  /\ ret' = getCloudCoverColor(input.value)
  /\ UNCHANGED input
  /\ UNCHANGED world

CallGetColorWithBadge ==
  /\ fn' = "getColorWithBadge"
  /\ ret' = getColorWithBadge(input.value, input.type)
  /\ UNCHANGED input
  /\ UNCHANGED world

NextColors ==
  \/ CallGetTemperatureColor
  \/ CallGetHumidityColor
  \/ CallGetWindSpeedColor
  \/ CallGetUVIndexColor
  \/ CallGetPrecipitationColor
  \/ CallGetVisibilityColor
  \/ CallGetPressureColor
  \/ CallGetCloudCoverColor
  \/ CallGetColorWithBadge

SpecColors == InitColors /\ [][NextColors]_vars

\* one rung of a threshold ladder: the test `value op threshold` and its band;
\* the last rung of a ladder has no test
Rung(op, threshold, band) == [op |-> op, threshold |-> threshold, band |-> band]

RungMatches(rung, value) ==
  CASE rung.op = ">=" -> Ge(value, N(rung.threshold))
    [] rung.op = "<" -> Lt(value, N(rung.threshold))
    [] rung.op = "else" -> TRUE

\* the band of the first rung whose test matches
FirstMatch(ladder, value) ==
  LET i == CHOOSE k \in 1..Len(ladder) :
             /\ RungMatches(ladder[k], value)
             /\ \A j \in 1..(k - 1) : ~RungMatches(ladder[j], value)
  IN  ladder[i].band

\* the threshold ladders of the eight metrics, top down
Ladder(function) ==
  CASE function = "getTemperatureColor" ->
      << Rung(">=", 40, Band("#DC2626", "Extreme Heat", "critical")),
         Rung(">=", 35, Band("#EA580C", "Very Hot", "high")),
         Rung(">=", 30, Band("#F59E0B", "Hot", "moderate")),
         Rung(">=", 25, Band("#10B981", "Warm", "low")),
         Rung(">=", 15, Band("#06B6D4", "Comfortable", "low")),
         Rung(">=", 10, Band("#3B82F6", "Cool", "low")),
         Rung(">=", 0, Band("#6366F1", "Cold", "moderate")),
         Rung("else", 0, Band("#A5F3FC", "Freezing", "high")) >>
    [] function = "getHumidityColor" ->
      << Rung(">=", 85, Band("#DC2626", "Very Humid", "high")),
         Rung(">=", 70, Band("#F59E0B", "Humid", "moderate")),
         Rung(">=", 30, Band("#10B981", "Comfortable", "low")),
         Rung(">=", 20, Band("#F59E0B", "Dry", "moderate")),
         Rung("else", 0, Band("#EA580C", "Very Dry", "high")) >>
    [] function = "getWindSpeedColor" ->
      << Rung(">=", 75, Band("#7C2D12", "Dangerous", "critical")),
         Rung(">=", 60, Band("#DC2626", "Very Strong", "high")),
         Rung(">=", 40, Band("#EA580C", "Strong", "moderate")),
         Rung(">=", 20, Band("#F59E0B", "Windy", "low")),
         Rung(">=", 10, Band("#10B981", "Breezy", "low")),
         Rung("else", 0, Band("#06B6D4", "Calm", "low")) >>
    [] function = "getUVIndexColor" ->
      << Rung(">=", 11, Band("#7C2D12", "Extreme", "critical")),
         Rung(">=", 8, Band("#DC2626", "Very High", "high")),
         Rung(">=", 6, Band("#EA580C", "High", "moderate")),
         Rung(">=", 3, Band("#F59E0B", "Moderate", "low")),
         Rung("else", 0, Band("#10B981", "Low", "low")) >>
    [] function = "getPrecipitationColor" ->
      << Rung(">=", 80, Band("#DC2626", "Very Likely", "high")),
         Rung(">=", 60, Band("#EA580C", "Likely", "moderate")),
         Rung(">=", 40, Band("#F59E0B", "Possible", "low")),
         Rung(">=", 20, Band("#10B981", "Unlikely", "low")),
         Rung("else", 0, Band("#06B6D4", "Very Unlikely", "low")) >>
    [] function = "getVisibilityColor" ->
      << Rung("<", 1, Band("#DC2626", "Very Poor", "high")),
         Rung("<", 4, Band("#EA580C", "Poor", "moderate")),
         Rung("<", 10, Band("#F59E0B", "Moderate", "low")),
         Rung("else", 0, Band("#10B981", "Good", "low")) >>
    [] function = "getPressureColor" ->
      << Rung("<", 980, Band("#DC2626", "Very Low", "high")),
         Rung("<", 1000, Band("#EA580C", "Low", "moderate")),
         Rung(">=", 1030, Band("#3B82F6", "Very High", "moderate")),
         Rung(">=", 1020, Band("#06B6D4", "High", "low")),
         Rung("else", 0, Band("#10B981", "Normal", "low")) >>
    [] function = "getCloudCoverColor" ->
      << Rung(">=", 90, Band("#64748B", "Overcast", "low")),
         Rung(">=", 70, Band("#94A3B8", "Mostly Cloudy", "low")),
         Rung(">=", 40, Band("#CBD5E1", "Partly Cloudy", "low")),
         Rung(">=", 10, Band("#F59E0B", "Mostly Clear", "low")),
         Rung("else", 0, Band("#FBBF24", "Clear", "low")) >>

\* the classifier that getColorWithBadge uses for a type
FunctionOfType(type) ==
  CASE type = "temperature" -> "getTemperatureColor"
    [] type = "humidity" -> "getHumidityColor"
    [] type = "wind" -> "getWindSpeedColor"
    [] type = "uv" -> "getUVIndexColor"
    [] type = "precipitation" -> "getPrecipitationColor"
    [] type = "visibility" -> "getVisibilityColor"
    [] type = "pressure" -> "getPressureColor"
    [] type = "cloudCover" -> "getCloudCoverColor"

Severities == {"low", "moderate", "high", "critical"}

\* C24: each of the eight classifiers returns, for every value, one band
\* {color, label, severity}: the band of the first rung of the metric's ladder
\* whose test matches, with a severity among low, moderate, high, critical;
\* getColorWithBadge(value, type) returns the band of the type's own classifier,
\* and the band {#10B981, Normal, low} for a type it does not know.
C24_FirstMatchingBand ==
  /\ fn \in {FunctionOfType(t) : t \in MetricTypes} =>
       /\ DOMAIN ret = {"color", "label", "severity"}
       /\ ret.severity \in Severities
       /\ ret = FirstMatch(Ladder(fn), input.value)
  /\ fn = "getColorWithBadge" =>
       IF input.type \in MetricTypes
       THEN ret = FirstMatch(Ladder(FunctionOfType(input.type)), input.value)
       ELSE ret = Band("#10B981", "Normal", "low")

\* a pressure of 1030 or more has been classified through getColorWithBadge:
\* two rungs match and the upper one is returned
C24_Witness ==
  /\ fn = "getColorWithBadge"
  /\ input.type = "pressure"
  /\ Ge(input.value, N(1030))
  /\ ret.label = "Very High"


(***************************************************************************)
(* The alert acknowledgment system.  weatherData is a record that may lack *)
(* `current` and `daily`; the readings of `current` are numbers [n, d], a   *)
(* reading the object lacks is undefined and compares as NaN.              *)
(***************************************************************************)
\* obj.f of a reading: undefined acts as NaN in a comparison
Reading(obj, f) == IF Has(obj, f) THEN obj[f] ELSE NaN

\* daily?.uv_index_max?.[0] || 0
firstUvIndex(weatherData) ==
  IF Has(weatherData, "daily") /\ Has(weatherData.daily, "uv_index_max")
     /\ Len(weatherData.daily.uv_index_max) > 0
  THEN OrZero(weatherData.daily.uv_index_max[1])
  ELSE Zero

\* the alert type with the test of the UV index ahead of the tests of the
\* wind and the rain
AlertTypeUvFirst(weatherData) ==
  IF weatherData = Null \/ ~Has(weatherData, "current") THEN "general"
  ELSE LET current == weatherData.current
           temp == Reading(current, "temperature_2m")
           humidity == Reading(current, "relative_humidity_2m")
           windSpeed == Reading(current, "wind_speed_10m")
           precipitation == Reading(current, "precipitation")
           uvIndex == firstUvIndex(weatherData)
       IN  IF Ge(temp, N(40)) THEN "extreme-heat"
           ELSE IF Lt(temp, N(0)) THEN "freezing"
           ELSE IF Ge(uvIndex, N(8)) THEN "high-uv"
           ELSE IF Ge(windSpeed, N(60)) THEN "dangerous-wind"
           ELSE IF Gt(precipitation, N(10)) THEN "heavy-rain"
           ELSE IF Ge(temp, N(35)) THEN "high-heat"
           ELSE IF Lt(temp, N(5)) THEN "cold"
           ELSE IF Ge(windSpeed, N(40)) THEN "strong-wind"
           ELSE IF Ge(humidity, N(85)) THEN "high-humidity"
           ELSE IF Gt(precipitation, N(0)) THEN "precipitation"
           ELSE "general"

determineAlertType(weatherData) ==
  IF weatherData = Null \/ ~Has(weatherData, "current") THEN "general"
  ELSE LET current == weatherData.current
           temp == Reading(current, "temperature_2m")
           humidity == Reading(current, "relative_humidity_2m")
           windSpeed == Reading(current, "wind_speed_10m")
           precipitation == Reading(current, "precipitation")
           uvIndex == firstUvIndex(weatherData)
       IN  IF Ge(temp, N(40)) THEN "extreme-heat"
           ELSE IF Lt(temp, N(0)) THEN "freezing"
           ELSE IF Ge(windSpeed, N(60)) THEN "dangerous-wind"
           ELSE IF Gt(precipitation, N(10)) THEN "heavy-rain"
           ELSE IF Ge(uvIndex, N(8)) THEN "high-uv"
           ELSE IF Ge(temp, N(35)) THEN "high-heat"
           ELSE IF Lt(temp, N(5)) THEN "cold"
           ELSE IF Ge(windSpeed, N(40)) THEN "strong-wind"
           ELSE IF Ge(humidity, N(85)) THEN "high-humidity"
           ELSE IF Gt(precipitation, N(0)) THEN "precipitation"
           ELSE "general"

getAlertSeverity(alertType) ==
  LET criticalAlerts == {"extreme-heat", "freezing", "dangerous-wind", "heavy-rain"}
      highAlerts == {"high-heat", "cold", "strong-wind", "high-uv"}
      moderateAlerts == {"high-humidity", "precipitation"}
  IN  IF alertType \in criticalAlerts THEN "critical"
      ELSE IF alertType \in highAlerts THEN "high"
      ELSE IF alertType \in moderateAlerts THEN "moderate"
      ELSE "low"

(***************************************************************************)
(* Specification SpecAlertType: determineAlertType on weather data whose   *)
(* readings lie on both sides of every threshold, with and without `daily` *)
(* and `current`, and with single readings missing.                        *)
(***************************************************************************)
AlertTemps == {N(-1), N(0), R(9, 2), N(5), N(34), N(35), N(39), N(40)}

AlertWinds == {N(0), N(39), N(40), N(59), N(60)}

AlertRains == {N(0), R(1, 2), N(10), R(21, 2)}

AlertHumidities == {N(84), N(85)}

AlertUvs == {N(0), N(7), N(8)}

CurrentReadings ==
  [temperature_2m : AlertTemps, relative_humidity_2m : AlertHumidities,
   wind_speed_10m : AlertWinds, precipitation : AlertRains]

\* a `current` that lacks one reading
PartialReadings ==
  {[f \in {"temperature_2m", "relative_humidity_2m", "wind_speed_10m",
           "precipitation"} \ {g} |-> N(50)] :
     g \in {"temperature_2m", "relative_humidity_2m", "wind_speed_10m",
            "precipitation"}}

AlertTypeInputs ==
  {Null, EmptyObject, [daily |-> [uv_index_max |-> <<N(8)>>]]}
  \cup {[current |-> c] : c \in CurrentReadings \cup PartialReadings}
  \cup {[current |-> c, daily |-> [uv_index_max |-> <<u, N(9)>>]] :
          c \in CurrentReadings \cup PartialReadings, u \in AlertUvs}
  \cup {[current |-> c, daily |-> d] :
          c \in PartialReadings, d \in {EmptyObject, [uv_index_max |-> <<>>]}}

InitAlertType ==
  /\ input \in AlertTypeInputs
  /\ fn = ""
  /\ ret = NoReturn
  /\ WorldAtRest

CallDetermineAlertType ==
  /\ fn' = "determineAlertType"
  /\ ret' = determineAlertType(input)
  /\ UNCHANGED input
  /\ UNCHANGED world

NextAlertType == CallDetermineAlertType

SpecAlertType == InitAlertType /\ [][NextAlertType]_vars

\* the alert types in their priority order
AlertPriority ==
  <<"extreme-heat", "freezing", "dangerous-wind", "heavy-rain", "high-uv",
    "high-heat", "cold", "strong-wind", "high-humidity", "precipitation">>

\* the condition of an alert type on weather data that has `current`
AlertCondition(alertType, weatherData) ==
  LET current == weatherData.current
      temp == Reading(current, "temperature_2m")
      windSpeed == Reading(current, "wind_speed_10m")
      precipitation == Reading(current, "precipitation")
  IN  CASE alertType = "extreme-heat" -> Ge(temp, N(40))
        [] alertType = "freezing" -> Lt(temp, N(0))
        [] alertType = "dangerous-wind" -> Ge(windSpeed, N(60))
        [] alertType = "heavy-rain" -> Gt(precipitation, N(10))
        [] alertType = "high-uv" -> Ge(firstUvIndex(weatherData), N(8))
        [] alertType = "high-heat" -> Ge(temp, N(35))
        [] alertType = "cold" -> Lt(temp, N(5))
        [] alertType = "strong-wind" -> Ge(windSpeed, N(40))
        [] alertType = "high-humidity" ->
             Ge(Reading(current, "relative_humidity_2m"), N(85))
        [] alertType = "precipitation" -> Gt(precipitation, N(0))

SeverityRank(severity) ==
  CASE severity = "low" -> 0
    [] severity = "moderate" -> 1
    [] severity = "high" -> 2
    [] severity = "critical" -> 3

\* the positions in the priority order of the conditions that hold
SatisfiedAlerts(weatherData) ==
  IF weatherData = Null \/ ~Has(weatherData, "current") THEN {}
  ELSE {k \in 1..Len(AlertPriority) : AlertCondition(AlertPriority[k], weatherData)}

\* C28: determineAlertType returns the first alert type of the priority order
\* whose condition holds; the severity of the returned type is not lower than
\* the severity of any alert type whose condition the data satisfy; 'general'
\* is returned only when `current` is absent or no condition holds.
C28_FirstTypeInPriorityOrder ==
  fn = "determineAlertType" =>
    LET satisfied == SatisfiedAlerts(input)
    IN  /\ satisfied # {} =>
             /\ \E k \in satisfied :
                  /\ ret = AlertPriority[k]
                  /\ \A j \in satisfied : k <= j
             /\ \A j \in satisfied :
                  SeverityRank(getAlertSeverity(ret))
                    >= SeverityRank(getAlertSeverity(AlertPriority[j]))
        /\ ret = "general" <=> satisfied = {}
        /\ ret = "general" => getAlertSeverity(ret) = "low"

\* heavy rain under a high UV index has been classified
C28_Witness ==
  /\ fn = "determineAlertType"
  /\ ret = "heavy-rain"
  /\ Cardinality(SatisfiedAlerts(input)) >= 3
  /\ \E k \in SatisfiedAlerts(input) : AlertPriority[k] = "high-uv"


(***************************************************************************)
(* Acknowledgments of a guest user, kept in localStorage under the key     *)
(* 'acknowledgedAlerts' as the JSON text of an array of alert ids.  The    *)
(* text of an array of strings parses back to the same array, so the       *)
(* stored item is held as the array; a key that was never set is a field   *)
(* outside the DOMAIN of the store.                                        *)
(***************************************************************************)
\* JSON.parse(localStorage.getItem('acknowledgedAlerts') || '[]')
parsedAlerts(store) ==
  IF Has(store, "acknowledgedAlerts") THEN store.acknowledgedAlerts ELSE <<>>

\* localStorage.setItem('acknowledgedAlerts', JSON.stringify(alerts))
setAlerts(store, alerts) ==
  [key \in DOMAIN store \cup {"acknowledgedAlerts"} |->
     IF key = "acknowledgedAlerts" THEN alerts ELSE store[key]]

\* arr.includes(x)
includes(arr, x) == \E i \in 1..Len(arr) : arr[i] = x

\* arr.slice(-n)
sliceLast(arr, n) ==
  IF Len(arr) > n THEN [k \in 1..n |-> arr[Len(arr) - n + k]] ELSE arr

\* the number of ids acknowledgeAlertLocal keeps
MaxLocalAlerts == 100

isAlertAcknowledgedLocal(store, alertId) == includes(parsedAlerts(store), alertId)

\* an acknowledgment that does not look the id up first
AcknowledgeWithoutLookup(store, alertId) ==
  LET acknowledgedAlerts == Append(parsedAlerts(store), alertId)
  IN  IF Len(acknowledgedAlerts) > MaxLocalAlerts
      THEN setAlerts(store, sliceLast(acknowledgedAlerts, MaxLocalAlerts))
      ELSE setAlerts(store, acknowledgedAlerts)

\* the store after acknowledgeAlertLocal(alertId): the first setItem and the
\* setItem of the clean-up happen within the one synchronous call
acknowledgeAlertLocal(store, alertId) ==
  IF ~includes(parsedAlerts(store), alertId)
  THEN LET acknowledgedAlerts == Append(parsedAlerts(store), alertId)
       IN  IF Len(acknowledgedAlerts) > MaxLocalAlerts
           THEN setAlerts(store, sliceLast(acknowledgedAlerts, MaxLocalAlerts))
           ELSE setAlerts(store, acknowledgedAlerts)
  ELSE store

\* String.prototype.toLowerCase on one character, over the letters that the
\* locations of the model use
toLowerCase(ch) ==
  CASE ch = "R" -> "r"
    [] ch = "I" -> "i"
    [] ch = "O" -> "o"
    [] OTHER -> ch

\* location.toLowerCase().replace(/[^a-z0-9]/g, '-'), a location being the
\* sequence of its characters
normalizedLocation(location) ==
  [k \in 1..Len(location) |->
     IF toLowerCase(location[k]) \in {"r", "i", "o", "d", "e", "1"}
     THEN toLowerCase(location[k])
     ELSE "-"]

\* weatherData?.current?.temperature_2m?.toFixed(0) || '0'
alertTemp(weatherData) ==
  IF weatherData # Null /\ Has(weatherData, "current")
     /\ Has(weatherData.current, "temperature_2m")
  THEN ToFixed(weatherData.current.temperature_2m, 0)
  ELSE Zero

\* weatherData?.current?.relative_humidity_2m || '0'
alertHumidity(weatherData) ==
  IF weatherData # Null /\ Has(weatherData, "current")
     /\ Has(weatherData.current, "relative_humidity_2m")
  THEN OrZero(weatherData.current.relative_humidity_2m)
  ELSE Zero

\* the id generateAlertId builds when `new Date()` is `now`: the parts of the
\* template string, which are joined by '-'
generateAlertId(now, location, alertType, weatherData) ==
  [location |-> normalizedLocation(location), alertType |-> alertType,
   dateStr |-> now.day, hourStr |-> now.hour,
   temp |-> alertTemp(weatherData), humidity |-> alertHumidity(weatherData)]

\* the alert id that shouldShowAlert and acknowledgeCurrentAlert compute
currentAlertId(now, location, weatherData) ==
  generateAlertId(now, location, determineAlertType(weatherData), weatherData)

\* what shouldShowAlert(null, location, weatherData) resolves to
shouldShowAlert(store, now, location, weatherData) ==
  ~isAlertAcknowledgedLocal(store, currentAlertId(now, location, weatherData))

\* the store after acknowledgeCurrentAlert(null, location, weatherData)
acknowledgeCurrentAlert(store, now, location, weatherData) ==
  acknowledgeAlertLocal(store, currentAlertId(now, location, weatherData))

(***************************************************************************)
(* The alerts of one hour at one place as the readings drift: reading k    *)
(* has the temperature 5 + (k - 1) \div 10 and the humidity                *)
(* 85 + (k - 1) % 10, which makes a 'high-humidity' alert with an id of    *)
(* its own.                                                                *)
(***************************************************************************)
Rio == <<"R", "i", "o">>

HumidReading(k) ==
  [current |->
     [temperature_2m |-> N(5 + ((k - 1) \div 10)),
      relative_humidity_2m |-> N(85 + ((k - 1) % 10)),
      wind_speed_10m |-> N(0), precipitation |-> N(0)]]

\* the ids of the first n readings, acknowledged in their order at `now`
AcknowledgedReadings(now, n) ==
  [k \in 1..n |-> currentAlertId(now, Rio, HumidReading(k))]

(***************************************************************************)
(* Specification SpecLocalAlerts: acknowledgeAlertLocal and                *)
(* isAlertAcknowledgedLocal called with ids in any order, from a store     *)
(* that holds nothing, an empty list, or the ids of the first readings.    *)
(***************************************************************************)
MaxNewAlerts == 2

\* ids that are stored at the start and ids that are not
LocalAlertIds ==
  {currentAlertId(Midnight, Rio, HumidReading(k)) :
     k \in {1, 2, MaxLocalAlerts} \cup
           ((MaxLocalAlerts + 1)..(MaxLocalAlerts + MaxNewAlerts))}

InitLocalAlerts ==
  /\ input = Null
  /\ fn = ""
  /\ ret = NoReturn
  /\ clock = 0
  /\ requests = 0
  /\ storage = EmptyStorage
  /\ iap = NothingBought
  /\ hook = HookUnmounted
  /\ banner = BannerUnmounted
  /\ wallClock = Midnight
  /\ localStorage \in
       {EmptyLocalStorage}
       \cup {setAlerts(EmptyLocalStorage, AcknowledgedReadings(Midnight, n)) :
               n \in {0, MaxLocalAlerts - 2, MaxLocalAlerts}}
  /\ firestore = FirestoreAtRest
  /\ weather = WeatherUnmounted

\* everything but the call frame and localStorage
besideLocalStorage ==
  <<clock, requests, storage, iap, hook, banner, wallClock, firestore, weather>>

CallAcknowledgeAlertLocal ==
  \E alertId \in LocalAlertIds :
    /\ input' = alertId
    /\ fn' = "acknowledgeAlertLocal"
    /\ ret' = NoReturn
    /\ localStorage' = acknowledgeAlertLocal(localStorage, alertId)
    /\ UNCHANGED besideLocalStorage

CallIsAlertAcknowledgedLocal ==
  \E alertId \in LocalAlertIds :
    /\ input' = alertId
    /\ fn' = "isAlertAcknowledgedLocal"
    /\ ret' = isAlertAcknowledgedLocal(localStorage, alertId)
    /\ UNCHANGED localStorage
    /\ UNCHANGED besideLocalStorage

NextLocalAlerts ==
  \/ CallAcknowledgeAlertLocal
  \/ CallIsAlertAcknowledgedLocal

SpecLocalAlerts == InitLocalAlerts /\ [][NextLocalAlerts]_vars

NoDuplicates(arr) == \A i, j \in 1..Len(arr) : arr[i] = arr[j] => i = j

\* C25: the stored list never holds an id twice and, a call having returned,
\* never more than 100 ids; a call of acknowledgeAlertLocal with a stored id
\* leaves the list as it is, and a call with another id leaves the last 100 of
\* the list with the id appended, so that the list is the most recently
\* acknowledged ids in the order of their acknowledgment.
C25_StoredListBounded ==
  /\ [](/\ NoDuplicates(parsedAlerts(localStorage))
        /\ Len(parsedAlerts(localStorage)) <= 100)
  /\ [][fn' = "acknowledgeAlertLocal" =>
          LET before == parsedAlerts(localStorage)
              after == parsedAlerts(localStorage')
              grown == before \o <<input'>>
          IN  IF \E i \in 1..Len(before) : before[i] = input'
              THEN after = before
              ELSE /\ Len(after) = (IF Len(grown) > 100 THEN 100 ELSE Len(grown))
                   /\ \A k \in 1..Len(after) :
                        after[k] = grown[Len(grown) - Len(after) + k]]_vars

\* a full list has taken a new id and lost its oldest one
C25_Witness ==
  /\ fn = "acknowledgeAlertLocal"
  /\ Len(parsedAlerts(localStorage)) = 100
  /\ parsedAlerts(localStorage)[100] = input
  /\ ~includes(parsedAlerts(localStorage), currentAlertId(Midnight, Rio, HumidReading(1)))


(***************************************************************************)
(* Specification SpecGuestAlerts: a guest acknowledges the current alert   *)
(* and asks whether to show it, for two spellings of one place and a few   *)
(* readings, while the hours pass.  The store starts empty or with the     *)
(* alerts of the first hundred readings acknowledged during the hour.      *)
(***************************************************************************)
MaxAlertHours == 1

\* 23:00 of day 0, an hour before the date changes
LastHourOfDay == [day |-> 0, hour |-> 23]

\* two spellings that normalize to one name
GuestLocations == {Rio, <<"r", "I", "O">>}

\* the first of the hundred readings, a reading beyond them in two forms that
\* toFixed(0) shows alike, and a snapshot without `current`
GuestWeather ==
  {HumidReading(1), HumidReading(MaxLocalAlerts + 1),
   [current |-> [temperature_2m |-> R(29, 2), relative_humidity_2m |-> N(85),
                 wind_speed_10m |-> N(0), precipitation |-> N(0)]],
   EmptyObject}

InitGuestAlerts ==
  /\ input = Null
  /\ fn = ""
  /\ ret = NoReturn
  /\ clock = 0
  /\ requests = 0
  /\ storage = EmptyStorage
  /\ iap = NothingBought
  /\ hook = HookUnmounted
  /\ banner = BannerUnmounted
  /\ wallClock = LastHourOfDay
  /\ localStorage \in
       {EmptyLocalStorage,
        setAlerts(EmptyLocalStorage,
                  AcknowledgedReadings(LastHourOfDay, MaxLocalAlerts))}
  /\ firestore = FirestoreAtRest
  /\ weather = WeatherUnmounted

\* everything but the call frame, localStorage and the wall clock
besideGuestAlerts == <<clock, requests, storage, iap, hook, banner, firestore, weather>>

CallAcknowledgeCurrentAlert ==
  \E location \in GuestLocations, weatherData \in GuestWeather :
    /\ input' = [location |-> location, weatherData |-> weatherData]
    /\ fn' = "acknowledgeCurrentAlert"
    /\ ret' = NoReturn
    /\ localStorage' = acknowledgeCurrentAlert(localStorage, wallClock, location, weatherData)
    /\ UNCHANGED wallClock
    /\ UNCHANGED besideGuestAlerts

CallShouldShowAlert ==
  \E location \in GuestLocations, weatherData \in GuestWeather :
    /\ input' = [location |-> location, weatherData |-> weatherData]
    /\ fn' = "shouldShowAlert"
    /\ ret' = shouldShowAlert(localStorage, wallClock, location, weatherData)
    /\ UNCHANGED <<wallClock, localStorage>>
    /\ UNCHANGED besideGuestAlerts

\* the clock reaches the next hour
HourPasses ==
  /\ 24 * wallClock.day + wallClock.hour < 23 + MaxAlertHours
  /\ wallClock' = [day |-> wallClock.day + (IF wallClock.hour = 23 THEN 1 ELSE 0),
                   hour |-> (wallClock.hour + 1) % 24]
  /\ UNCHANGED <<input, fn, ret, localStorage>>
  /\ UNCHANGED besideGuestAlerts

NextGuestAlerts ==
  \/ CallAcknowledgeCurrentAlert
  \/ CallShouldShowAlert
  \/ HourPasses

SpecGuestAlerts == InitGuestAlerts /\ [][NextGuestAlerts]_vars

\* shouldShowAlert(null, location, weatherData) would resolve to false
AlertHidden(store, now, location, weatherData) ==
  LET alertId == generateAlertId(now, location, determineAlertType(weatherData),
                                 weatherData)
      acknowledgedAlerts == parsedAlerts(store)
  IN  \E i \in 1..Len(acknowledgedAlerts) : acknowledgedAlerts[i] = alertId

\* C26: for a guest, when acknowledgeCurrentAlert(null, location, weatherData)
\* has completed, shouldShowAlert(null, location, weatherData) returns false
\* for the same location, alert type, clock hour, temperature and humidity,
\* and it goes on returning false within the hour whatever other alerts are
\* acknowledged after it.
C26_AcknowledgedAlertStaysHidden ==
  [][wallClock' = wallClock =>
       /\ fn' = "acknowledgeCurrentAlert" =>
            AlertHidden(localStorage', wallClock', input'.location, input'.weatherData)
       /\ fn' = "shouldShowAlert" =>
            ret' = ~AlertHidden(localStorage', wallClock', input'.location,
                                input'.weatherData)
       /\ \A location \in GuestLocations, weatherData \in GuestWeather :
            AlertHidden(localStorage, wallClock, location, weatherData)
              => AlertHidden(localStorage', wallClock', location, weatherData)]_vars

\* the same up to the hundredth acknowledgment that follows: an alert that is
\* not among the hundred ids acknowledged last is the only one that shows again
AcknowledgedAlertHiddenWhileKept ==
  [][wallClock' = wallClock =>
       /\ fn' = "acknowledgeCurrentAlert" =>
            AlertHidden(localStorage', wallClock', input'.location, input'.weatherData)
       /\ fn' = "shouldShowAlert" =>
            ret' = ~AlertHidden(localStorage', wallClock', input'.location,
                                input'.weatherData)
       /\ \A location \in GuestLocations, weatherData \in GuestWeather :
            /\ AlertHidden(localStorage, wallClock, location, weatherData)
            /\ \/ Len(parsedAlerts(localStorage)) < MaxLocalAlerts
               \/ parsedAlerts(localStorage)[1]
                    # currentAlertId(wallClock, location, weatherData)
            => AlertHidden(localStorage', wallClock', location, weatherData)]_vars


(***************************************************************************)
(* Acknowledgments of a registered user, kept in the field                 *)
(* acknowledgedAlerts of the user's Firestore document.  A call of         *)
(* acknowledgeAlertFirestore is a record of its alert id, its position     *)
(* `pc` among its awaits and the snapshot its last getDoc delivered; a     *)
(* step is what the server does for one request together with the code     *)
(* that runs when the request's promise settles.                           *)
(***************************************************************************)
\* the number of ids acknowledgeAlertFirestore keeps
MaxFirestoreAlerts == 50

\* userDoc.data().acknowledgedAlerts || []
docAlerts(userDoc) ==
  IF userDoc.exists /\ Has(userDoc, "acknowledgedAlerts")
  THEN userDoc.acknowledgedAlerts
  ELSE <<>>

\* the field after arrayUnion(alertId): the id is added unless it is there
arrayUnion(alerts, alertId) ==
  IF includes(alerts, alertId) THEN alerts ELSE Append(alerts, alertId)

\* the document with its field acknowledgedAlerts set
withAlerts(alerts) == [exists |-> TRUE, acknowledgedAlerts |-> alerts]

\* no snapshot read yet
NoSnapshot == [exists |-> FALSE]

\* acknowledgeAlertFirestore(userId, alertId) is called: getDoc is requested
StartAcknowledgeAlertFirestore(alertId) ==
  /\ firestore' =
       [firestore EXCEPT
          !.calls = Append(@, [alertId |-> alertId, pc |-> "getDoc",
                               snapshot |-> NoSnapshot,
                               concurrent |-> \E i \in 1..Len(firestore.calls) :
                                                firestore.calls[i].pc
                                                  \notin {"done", "failed"}])]

\* `const userDoc = await getDoc(userDocRef)` and the branch on exists()
GetDocResolves(i) ==
  /\ firestore.calls[i].pc = "getDoc"
  /\ firestore' =
       [firestore EXCEPT
          !.calls[i].snapshot = firestore.userDoc,
          !.calls[i].pc = IF firestore.userDoc.exists THEN "updateDoc" ELSE "setDoc"]

\* `await updateDoc(userDocRef, {acknowledgedAlerts: arrayUnion(alertId), ...})`
\* on a document that exists
UpdateDocResolves(i) ==
  /\ firestore.calls[i].pc = "updateDoc"
  /\ firestore.userDoc.exists
  /\ firestore' =
       [firestore EXCEPT
          !.userDoc = withAlerts(arrayUnion(docAlerts(firestore.userDoc),
                                            firestore.calls[i].alertId)),
          !.calls[i].pc = "getUpdatedDoc"]

\* `await setDoc(userDocRef, {acknowledgedAlerts: [alertId], ...})`: the
\* document is written whole
SetDocResolves(i) ==
  /\ firestore.calls[i].pc = "setDoc"
  /\ firestore' =
       [firestore EXCEPT
          !.userDoc = withAlerts(<<firestore.calls[i].alertId>>),
          !.calls[i].pc = "getUpdatedDoc"]

\* `const updatedDoc = await getDoc(userDocRef)` and the test of the length
GetUpdatedDocResolves(i) ==
  /\ firestore.calls[i].pc = "getUpdatedDoc"
  /\ firestore.userDoc.exists
  /\ firestore' =
       [firestore EXCEPT
          !.calls[i].snapshot = firestore.userDoc,
          !.calls[i].pc = IF Len(docAlerts(firestore.userDoc)) > MaxFirestoreAlerts
                          THEN "trim" ELSE "done"]

\* `await updateDoc(userDocRef, {acknowledgedAlerts: recentAlerts})`, with
\* recentAlerts the last 50 ids of the snapshot
TrimResolves(i) ==
  /\ firestore.calls[i].pc = "trim"
  /\ firestore.userDoc.exists
  /\ firestore' =
       [firestore EXCEPT
          !.userDoc = withAlerts(sliceLast(docAlerts(firestore.calls[i].snapshot),
                                           MaxFirestoreAlerts)),
          !.calls[i].pc = "done"]

\* a request is rejected, or updatedDoc.data() is undefined: the catch logs
\* the error and the call ends
FirestoreRejects(i) ==
  /\ firestore.calls[i].pc \in {"getDoc", "updateDoc", "setDoc", "getUpdatedDoc", "trim"}
  /\ firestore' = [firestore EXCEPT !.calls[i].pc = "failed"]

(***************************************************************************)
(* Specification SpecFirestoreAlerts: at most MaxFirestoreCalls calls for  *)
(* one user, started at any moment, their steps interleaved in any order.  *)
(* The document does not exist at the start, or holds no id, or the ids of *)
(* the first 49 or 50 readings.                                            *)
(***************************************************************************)
MaxFirestoreCalls == 2

\* ids that the document does not hold at the start
FirestoreAlertIds ==
  {currentAlertId(Midnight, Rio, HumidReading(k)) :
     k \in (MaxLocalAlerts + 1)..(MaxLocalAlerts + 3)}

InitFirestoreAlerts ==
  /\ input = Null
  /\ fn = ""
  /\ ret = NoReturn
  /\ clock = 0
  /\ requests = 0
  /\ storage = EmptyStorage
  /\ iap = NothingBought
  /\ hook = HookUnmounted
  /\ banner = BannerUnmounted
  /\ wallClock = Midnight
  /\ localStorage = EmptyLocalStorage
  /\ firestore \in
       {[userDoc |-> d, calls |-> <<>>] :
          d \in {NoDocument, [exists |-> TRUE]}
                \cup {withAlerts(AcknowledgedReadings(Midnight, n)) :
                        n \in {0, MaxFirestoreAlerts - 1, MaxFirestoreAlerts}}}
  /\ weather = WeatherUnmounted

\* everything but the user's document and the calls
besideFirestore ==
  <<input, fn, ret, clock, requests, storage, iap, hook, banner, wallClock,
    localStorage, weather>>

CallAcknowledgeAlertFirestore ==
  /\ Len(firestore.calls) < MaxFirestoreCalls
  /\ \E alertId \in FirestoreAlertIds : StartAcknowledgeAlertFirestore(alertId)
  /\ UNCHANGED besideFirestore

FirestoreGetDoc ==
  /\ \E i \in 1..Len(firestore.calls) : GetDocResolves(i)
  /\ UNCHANGED besideFirestore

FirestoreUpdateDoc ==
  /\ \E i \in 1..Len(firestore.calls) : UpdateDocResolves(i)
  /\ UNCHANGED besideFirestore

FirestoreSetDoc ==
  /\ \E i \in 1..Len(firestore.calls) : SetDocResolves(i)
  /\ UNCHANGED besideFirestore

FirestoreGetUpdatedDoc ==
  /\ \E i \in 1..Len(firestore.calls) : GetUpdatedDocResolves(i)
  /\ UNCHANGED besideFirestore

FirestoreTrim ==
  /\ \E i \in 1..Len(firestore.calls) : TrimResolves(i)
  /\ UNCHANGED besideFirestore

FirestoreError ==
  /\ \E i \in 1..Len(firestore.calls) : FirestoreRejects(i)
  /\ UNCHANGED besideFirestore

NextFirestoreAlerts ==
  \/ CallAcknowledgeAlertFirestore
  \/ FirestoreGetDoc
  \/ FirestoreUpdateDoc
  \/ FirestoreSetDoc
  \/ FirestoreGetUpdatedDoc
  \/ FirestoreTrim
  \/ FirestoreError

SpecFirestoreAlerts == InitFirestoreAlerts /\ [][NextFirestoreAlerts]_vars

\* two calls for different ids, the second started while the first was
\* under way, have both completed without an error
BothCompleted ==
  /\ Len(firestore.calls) = 2
  /\ firestore.calls[2].concurrent
  /\ firestore.calls[1].alertId # firestore.calls[2].alertId
  /\ \A i \in 1..2 : firestore.calls[i].pc = "done"

\* C27: when two calls of acknowledgeAlertFirestore for one user and different
\* alert ids run concurrently and both complete without a Firestore error,
\* both ids are in the user's acknowledgedAlerts, on the path that creates the
\* document as on the path that trims the list to its last 50 ids.
C27_NoAcknowledgmentLost ==
  BothCompleted =>
    \A i \in 1..2 : includes(docAlerts(firestore.userDoc), firestore.calls[i].alertId)

\* the same of two calls of which the second starts when the first has ended
SequentialCallsKeepBoth ==
  /\ Len(firestore.calls) = 2
  /\ ~firestore.calls[2].concurrent
  /\ firestore.calls[1].alertId # firestore.calls[2].alertId
  /\ \A i \in 1..2 : firestore.calls[i].pc = "done"
  => \A i \in 1..2 : includes(docAlerts(firestore.userDoc), firestore.calls[i].alertId)

\* the create path: both calls found no document, and the id of one is gone
CreatePathLosesAnId ==
  /\ BothCompleted
  /\ ~(\A i \in 1..2 : includes(docAlerts(firestore.userDoc), firestore.calls[i].alertId))
  /\ Len(docAlerts(firestore.userDoc)) = 1

\* the trim path: a call cut the list to the 50 ids it had read, and the id
\* that the other call added meanwhile is gone
TrimPathLosesAnId ==
  /\ BothCompleted
  /\ ~(\A i \in 1..2 : includes(docAlerts(firestore.userDoc), firestore.calls[i].alertId))
  /\ Len(docAlerts(firestore.userDoc)) = MaxFirestoreAlerts


(***************************************************************************)
(* The useWeather hook.  `weather` holds the three pieces of state of the  *)
(* hook and the calls of fetchWeatherData in the order they started; a     *)
(* call is at "fetch" (awaiting fetch(url)), at "json" (awaiting           *)
(* response.json()), "done" or "failed".  The response of the k-th call is *)
(* the data k.                                                             *)
(***************************************************************************)
\* fetchWeatherData() up to `await fetch(url)`, for a location that has a
\* latitude and a longitude
startFetch(w) ==
  [w EXCEPT !.loading = TRUE, !.error = Null,
            !.fetches = Append(@, "fetch")]

\* `if (!response.ok) throw ...` passed: response.json() is awaited
responseOk(w, i) == [w EXCEPT !.fetches[i] = "json"]

\* `setWeatherData(data); setLoading(false)`
dataReceived(w, i) ==
  [w EXCEPT !.weatherData = [data |-> i], !.loading = FALSE, !.fetches[i] = "done"]

\* the catch block: `setError(err.message); setLoading(false)`
fetchFailed(w, i) ==
  [w EXCEPT !.error = [message |-> i], !.loading = FALSE, !.fetches[i] = "failed"]

(***************************************************************************)
(* Specification SpecWeather: a mounted useWeather hook whose location     *)
(* changes or whose refreshWeather is called up to MaxFetches times, at    *)
(* any moment, and whose requests are answered in any order.               *)
(***************************************************************************)
MaxFetches == 3

InitWeather ==
  /\ input = Null
  /\ fn = ""
  /\ ret = NoReturn
  /\ WorldAtRest

\* everything but the hook
besideWeather ==
  <<input, fn, ret, clock, requests, storage, iap, hook, banner, wallClock,
    localStorage, firestore>>

\* the effect on [location], or refreshWeather()
FetchWeatherData ==
  /\ Len(weather.fetches) < MaxFetches
  /\ weather' = startFetch(weather)
  /\ UNCHANGED besideWeather

FetchResolves ==
  /\ \E i \in 1..Len(weather.fetches) :
       /\ weather.fetches[i] = "fetch"
       /\ weather' = responseOk(weather, i)
  /\ UNCHANGED besideWeather

\* fetch rejects, or the response is not ok
FetchFails ==
  /\ \E i \in 1..Len(weather.fetches) :
       /\ weather.fetches[i] = "fetch"
       /\ weather' = fetchFailed(weather, i)
  /\ UNCHANGED besideWeather

JsonResolves ==
  /\ \E i \in 1..Len(weather.fetches) :
       /\ weather.fetches[i] = "json"
       /\ weather' = dataReceived(weather, i)
  /\ UNCHANGED besideWeather

JsonRejects ==
  /\ \E i \in 1..Len(weather.fetches) :
       /\ weather.fetches[i] = "json"
       /\ weather' = fetchFailed(weather, i)
  /\ UNCHANGED besideWeather

NextWeather ==
  \/ FetchWeatherData
  \/ FetchResolves
  \/ FetchFails
  \/ JsonResolves
  \/ JsonRejects

SpecWeather == InitWeather /\ [][NextWeather]_vars

InFlight(w) == {i \in 1..Len(w.fetches) : w.fetches[i] \in {"fetch", "json"}}

\* C29: while a fetch is in flight loading is true; when every fetch has
\* completed and the one started last has delivered its data, weatherData is
\* that data; a fetch that fails sets error and leaves weatherData as it was.
C29_LatestFetchWins ==
  /\ [](InFlight(weather) # {} => weather.loading)
  /\ [](/\ weather.fetches # <<>>
        /\ InFlight(weather) = {}
        /\ weather.fetches[Len(weather.fetches)] = "done"
        => weather.weatherData = [data |-> Len(weather.fetches)])
  /\ [][\A i \in 1..Len(weather.fetches) :
          weather.fetches[i] # "failed" /\ weather'.fetches[i] = "failed"
          => /\ weather'.error = [message |-> i]
             /\ weather'.weatherData = weather.weatherData]_vars

\* the last part alone: a failed fetch sets error and keeps weatherData
FailedFetchKeepsData ==
  [][\A i \in 1..Len(weather.fetches) :
       weather.fetches[i] # "failed" /\ weather'.fetches[i] = "failed"
       => /\ weather'.error = [message |-> i]
          /\ weather'.weatherData = weather.weatherData]_vars

\* loading is false although a fetch is in flight
LoadingClearedEarly == InFlight(weather) # {} /\ ~weather.loading

\* every fetch has completed and the data shown are those of an older fetch
\* than the last one, which succeeded
StaleDataShown ==
  /\ weather.fetches # <<>>
  /\ InFlight(weather) = {}
  /\ weather.fetches[Len(weather.fetches)] = "done"
  /\ weather.weatherData # [data |-> Len(weather.fetches)]


\* C30: after purchaseSubscription or restorePurchases is called, the loading
\* flag of useSubscription eventually returns to false, whatever the outcome:
\* the request rejected, a purchase-error event, the purchase completed and
\* handled by the purchase-updated listener, a restore that found the
\* purchase, one that found none, or one that failed.
C30_LoadingReturnsToFalse == hook.loading ~> ~hook.loading

\* the same of restorePurchases alone: a restore under way ends with loading
\* false
RestoreClearsLoading == (hook.restore # "idle") ~> (hook.restore = "idle" /\ ~hook.loading)

\* the listener has stored the purchase and loading is still true
LoadingLeftAfterPurchase ==
  /\ hook.mounted
  /\ hook.loading
  /\ hook.isPremium
  /\ hook.purchase = "idle" /\ hook.restore = "idle"
  /\ iap.event = "none"
  /\ PurchaseStored

====
